---- MODULE Spec2Model ----
(***************************************************************************)
(* FloatChat (Dash variant): the chat store handled by                     *)
(* process_chat_events, the synthetic float catalog with the sidebar       *)
(* filter engine (build_filtered_dataset) and the keyword classifier of    *)
(* the chat pipeline (apply_chat_filters, generate_chat_driven_plots).     *)
(*                                                                         *)
(* Python strings are sequences of one-character strings, so that strip,   *)
(* lower, slicing and substring search are computed, not assumed.          *)
(* Optional values (None or a value) are sequences of length at most one.  *)
(***************************************************************************)
EXTENDS Integers, Sequences, FiniteSets, TLC

VARIABLES
    store,        \* dcc.Store "chat-store": the conversation store
    chat_input,   \* value of the "chat-input" text box
    last_event,   \* the trigger of the last process_chat_events call
    prev_store,   \* the store that call received
    prev_input,   \* the text box value that call received
    fargs,        \* arguments / widget values of the filter pipeline
    today,        \* date.today() at the time of the call, as a day number
    fop,          \* which filter entry point has run
    dataset,      \* the data frame it produced
    query,        \* free-text query given to the chat pipeline
    base_frame,   \* frame handed to apply_chat_filters when called on its own
    qop,          \* which classifier entry point has run
    response,     \* what it returned
    rng_label,    \* label given to seeded_rng
    rng_seed,     \* seed of the generator it returned, None before the call
    np_random,    \* values drawn so far from numpy's global generator
    catalog_log,  \* the calls of generate_dummy_map_data and their frames
    snapshot_args,     \* arguments of compute_parameter_snapshot
    snapshot,          \* what it returned or raised, None before the call
    export_parameters, \* parameters argument of generate_dummy_export_df
    engine_provider,   \* provider argument of build_engine
    openai_api_key,    \* os.getenv("OPENAI_API_KEY")
    engine,            \* the engine build_engine returned, None before the call
    chat_history,      \* messages given to EchoEngine.stream_reply
    fragments,         \* the fragments it has yielded, None before the call
    chat_children,     \* children of the "chat-history" container in the browser
    render_meta,       \* dcc.Store "chat-render-meta"
    render_pending,    \* the chat store changed and render_chat_from_store has not run
    page_messages,     \* st.session_state.messages of the chatbot page
    page_pc,           \* position of handle_chat
    page_engine,       \* the engine handle_chat built
    display_buffer,    \* `full`, the text shown in the assistant placeholder
    page_received,     \* number of fragments handle_chat has taken from the engine
    openai_service,    \* the completion service: request count, chunks, failure
    history_file,      \* the chat history file of ChatManager
    file_lock,         \* holder of the advisory lock on that file, None when free
    managers,          \* the ChatManager of each process and its position
    st_chat_history,   \* st.session_state.chat_history of the Streamlit chatbot
    turn_clock,        \* number of messages that chatbot has processed
    chat_records,      \* rows of the table chat_records
    fetch_cache,       \* the st.cache_data cache of fetch_chat_history
    db_calls,          \* the db call each session is in and its position
    db_clock           \* datetime.utcnow() and the id sequence of the table

vars == <<store, chat_input, last_event, prev_store, prev_input,
          fargs, today, fop, dataset, query, base_frame, qop, response,
          rng_label, rng_seed, np_random, catalog_log, snapshot_args, snapshot,
          export_parameters, engine_provider, openai_api_key, engine,
          chat_history, fragments,
          chat_children, render_meta, render_pending,
          page_messages, page_pc, page_engine, display_buffer, page_received,
          openai_service,
          history_file, file_lock, managers,
          st_chat_history, turn_clock,
          chat_records, fetch_cache, db_calls, db_clock>>

storeVars == <<store, chat_input, last_event, prev_store, prev_input>>
filterVars == <<fargs, today, fop, dataset>>
queryVars == <<query, base_frame, qop, response>>
seedVars == <<rng_label, rng_seed>>
catalogVars == <<np_random, catalog_log>>
snapshotVars == <<snapshot_args, snapshot>>
exportVars == <<export_parameters>>
engineVars == <<engine_provider, openai_api_key, engine>>
echoVars == <<chat_history, fragments>>
renderVars == <<chat_children, render_meta, render_pending>>
pageVars == <<page_messages, page_pc, page_engine, display_buffer, page_received,
             openai_service>>
lockVars == <<history_file, file_lock, managers>>
trimVars == <<st_chat_history, turn_clock>>
cacheVars == <<chat_records, fetch_cache, db_calls, db_clock>>
lateVars == <<renderVars, pageVars, lockVars, trimVars, cacheVars>>
earlyVars == <<seedVars, catalogVars, snapshotVars, exportVars, engineVars, echoVars>>
auxVars == <<earlyVars, lateVars>>

-----------------------------------------------------------------------------
(* Python values *)

None == <<>>
Some(v) == <<v>>

Min2(a, b) == IF a <= b THEN a ELSE b
Max2(a, b) == IF a >= b THEN a ELSE b

RECURSIVE SumSeq(_)
SumSeq(s) == IF s = <<>> THEN 0 ELSE Head(s) + SumSeq(Tail(s))

SeqToSet(s) == {s[i] : i \in 1..Len(s)}

(* list.__contains__ *)
InList(x, s) == \E i \in 1..Len(s) : s[i] = x

Lowercase == <<"a","b","c","d","e","f","g","h","i","j","k","l","m",
               "n","o","p","q","r","s","t","u","v","w","x","y","z">>
Uppercase == <<"A","B","C","D","E","F","G","H","I","J","K","L","M",
               "N","O","P","Q","R","S","T","U","V","W","X","Y","Z">>

IndexIn(c, alphabet) ==
    IF \E i \in 1..Len(alphabet) : alphabet[i] = c
    THEN CHOOSE i \in 1..Len(alphabet) : alphabet[i] = c
    ELSE 0

(* ord(char) for the characters that occur in labels; a character outside  *)
(* ASCII is written by its code point, "U+0000" being the smallest         *)
Ord(c) ==
    IF IndexIn(c, Lowercase) > 0 THEN 96 + IndexIn(c, Lowercase)
    ELSE IF IndexIn(c, Uppercase) > 0 THEN 64 + IndexIn(c, Uppercase)
    ELSE IF c = " " THEN 32
    ELSE IF c = "-" THEN 45
    ELSE IF c = "." THEN 46
    ELSE IF c = "?" THEN 63
    ELSE IF c = "_" THEN 95
    ELSE IF c = "U+10F0D" THEN 69389
    ELSE IF c = "U+10F0E" THEN 69390
    ELSE IF c = "U+10F0F" THEN 69391
    ELSE IF c = "U+10FFFF" THEN 1114111
    ELSE 0

LowerMap == [c \in SeqToSet(Uppercase) |-> Lowercase[IndexIn(c, Uppercase)]]
UpperMap == [c \in SeqToSet(Lowercase) |-> Uppercase[IndexIn(c, Lowercase)]]

LowerChar(c) == IF c \in DOMAIN LowerMap THEN LowerMap[c] ELSE c
UpperChar(c) == IF c \in DOMAIN UpperMap THEN UpperMap[c] ELSE c

(* str.lower / str.upper *)
Lower(s) == [i \in 1..Len(s) |-> LowerChar(s[i])]
Upper(s) == [i \in 1..Len(s) |-> UpperChar(s[i])]

(* s[:n] *)
Take(s, n) == SubSeq(s, 1, Min2(n, Len(s)))

IsSpace(c) == c = " "

RECURSIVE LStrip(_)
LStrip(s) == IF s # <<>> /\ IsSpace(Head(s)) THEN LStrip(Tail(s)) ELSE s

RECURSIVE RStrip(_)
RStrip(s) == IF s # <<>> /\ IsSpace(s[Len(s)]) THEN RStrip(SubSeq(s, 1, Len(s) - 1)) ELSE s

(* the text as typed, not stripped *)
NotStripped(s) == s

(* str.strip *)
Strip(s) == RStrip(LStrip(s))

(* `sub in s` for strings *)
Contains(s, sub) ==
    \E i \in 0..(Len(s) - Len(sub)) : SubSeq(s, i + 1, i + Len(sub)) = sub

(* any(word in s for word in words) *)
AnyIn(s, words) == \E w \in words : Contains(s, w)

-----------------------------------------------------------------------------
(* Region catalog *)

SampleRows == 5   \* rows kept in the model per 200 generated catalog rows

DEFAULT_REGION == "indian_ocean"

REGION_CONFIGS ==
    [indian_ocean |-> [lat_range |-> <<-20, 20>>, lon_range |-> <<50, 100>>, point_count |-> 12],
     arabian_sea |-> [lat_range |-> <<12, 22>>, lon_range |-> <<56, 70>>, point_count |-> 8],
     bay_of_bengal |-> [lat_range |-> <<5, 22>>, lon_range |-> <<80, 95>>, point_count |-> 10],
     equatorial_band |-> [lat_range |-> <<-5, 5>>, lon_range |-> <<-40, 10>>, point_count |-> 9],
     global_float_network |-> [lat_range |-> <<-35, 35>>, lon_range |-> <<-80, 60>>, point_count |-> 18],
     atlantic_basin |-> [lat_range |-> <<-40, 45>>, lon_range |-> <<-80, 10>>, point_count |-> 20],
     pacific_basin |-> [lat_range |-> <<-45, 35>>, lon_range |-> <<-180, -100>>, point_count |-> 24],
     southern_ocean |-> [lat_range |-> <<-70, -45>>, lon_range |-> <<-10, 80>>, point_count |-> 16],
     deep_profile_window |-> [lat_range |-> <<-10, 2>>, lon_range |-> <<145, 165>>, point_count |-> 6]]

(* a lookup that falls back on the last entry of the table *)
RegionConfigLastAsDefault(region) ==
    IF region \in DOMAIN REGION_CONFIGS THEN REGION_CONFIGS[region]
    ELSE REGION_CONFIGS["deep_profile_window"]

(* REGION_CONFIGS.get(region, REGION_CONFIGS[DEFAULT_REGION]) *)
RegionConfig(region) ==
    IF region \in DOMAIN REGION_CONFIGS THEN REGION_CONFIGS[region]
    ELSE REGION_CONFIGS[DEFAULT_REGION]

FLOAT_STATUS_OPTIONS == <<"Active", "Inactive", "Maintenance">>
FLOAT_TYPE_OPTIONS == <<"Core", "Bio", "Deep">>

(* The characters of the region keys the model passes around as strings *)
RegionChars(region) ==
    CASE region = "indian_ocean" -> <<"i","n","d","i","a","n","_","o","c","e","a","n">>
      [] region = "arabian_sea" -> <<"a","r","a","b","i","a","n","_","s","e","a">>
      [] region = "bay_of_bengal" -> <<"b","a","y","_","o","f","_","b","e","n","g","a","l">>
      [] region = "pacific_basin" -> <<"p","a","c","i","f","i","c","_","b","a","s","i","n">>
      [] region = "atlantis" -> <<"a","t","l","a","n","t","i","s">>
      [] OTHER -> <<>>

(* Python integers have no width; the checker's integers have 32 bits.  A  *)
(* natural number that may pass 2**31 is held as hi * 2**16 + lo with      *)
(* 0 <= lo < 2**16.                                                        *)
Wide(n) == [hi |-> n \div 65536, lo |-> n % 65536]

WideAdd(a, b) ==
    [hi |-> a.hi + b.hi + ((a.lo + b.lo) \div 65536), lo |-> (a.lo + b.lo) % 65536]

(* the number as an integer of the checker, for a number below 2**31 *)
Narrow(w) == w.hi * 65536 + w.lo

RECURSIVE CodePointSum(_, _, _)
(* sum(ord(char) for char in text[first - 1:last]) *)
CodePointSum(text, first, last) ==
    IF first > last THEN Wide(0)
    ELSE IF first = last THEN Wide(Ord(text[first]))
    ELSE LET middle == (first + last) \div 2
         IN  WideAdd(CodePointSum(text, first, middle), CodePointSum(text, middle + 1, last))

(* total % 2**32, the remainder for a modulus that is one too large *)
ModPowerOfTwo(total) == [hi |-> total.hi % 65536, lo |-> total.lo]

RECURSIVE ModSeedRange(_)
(* total % (2**32 - 1): 2**32 leaves the remainder 1, so q * 2**32 + r     *)
(* leaves the remainder of q + r                                           *)
ModSeedRange(total) ==
    IF total.hi >= 65536
    THEN ModSeedRange(WideAdd([hi |-> total.hi % 65536, lo |-> total.lo],
                              Wide(total.hi \div 65536)))
    ELSE IF total.hi = 65535 /\ total.lo = 65535 THEN Wide(0)
    ELSE total

(* seeded_rng: the seed of the generator made for a label (seed or 1) *)
seeded_rng(label) ==
    LET total == CodePointSum(label, 1, Len(label))
    IN  IF ModSeedRange(total) = Wide(0) THEN Wide(1) ELSE ModSeedRange(total)

(* The i-th value of the k-th array drawn from the generator seeded with   *)
(* `seed`, as an index into n equally likely outcomes.  numpy's bit        *)
(* generator is replaced by a fixed arithmetic hash: like the generator it *)
(* is a function of the seed and of the position in the stream only.       *)
Draw(seed, k, i, n) ==
    LET h == (seed * 7563 + k * 104743 + i * 1299709) % 1000003
    IN  ((h * 31 + (h \div 97)) % 65521) % n

Digit == <<"0","1","2","3","4","5","6","7","8","9">>

DigitAt(n, p) == Digit[((n \div p) % 10) + 1]

(* f"{n:03d}" *)
Format03d(n) ==
    IF n >= 1000 THEN <<DigitAt(n, 1000), DigitAt(n, 100), DigitAt(n, 10), DigitAt(n, 1)>>
    ELSE <<DigitAt(n, 100), DigitAt(n, 10), DigitAt(n, 1)>>

(* point_count of generate_dummy_map_data, thinned to the modelled sample *)
PointCount(region) ==
    (Max2(RegionConfig(region).point_count * 10, 200) * SampleRows) \div 200

(* a generator: its seed and the number of arrays drawn from it so far *)
Generator(seed, drawn) == [seed |-> seed, drawn |-> drawn]

(* the i-th value of the k-th array the function draws from the generator *)
DrawFrom(rng, k, i, n) == Draw(rng.seed, rng.drawn + k, i, n)

(* a function that draws from the shared generator of the process, which  *)
(* other calls have advanced, instead of making its own                    *)
MapGeneratorShared(region, global_drawn) ==
    Generator(Narrow(seeded_rng(RegionChars(region) \o <<"-","m","a","p">>)), global_drawn)

(* rng = seeded_rng(f"{region}-map"): a generator of its own for the call, *)
(* whatever numpy's global generator has been used for                     *)
MapGenerator(region, global_drawn) ==
    Generator(Narrow(seeded_rng(RegionChars(region) \o <<"-","m","a","p">>)), 0)

(* Row i of generate_dummy_map_data(region) generated on day `day` from    *)
(* the generator rng.                                                      *)
(* Units: degrees, metres, days, 1/100 degC, 1/100 PSU, percent.  The     *)
(* uniform depth draw falls on a 250 m grid and a normal draw is one of    *)
(* -sigma, 0, +sigma.                                                      *)
CatalogRowFrom(rng, region, i, day) ==
    LET config == RegionConfig(region)
        lat_range == config.lat_range
        lon_range == config.lon_range
        depth == 250 * DrawFrom(rng, 3, i, (4500 \div 250) + 1)
        base_date == day - 30
    IN  [float_id |-> Upper(Take(RegionChars(region), 2)) \o <<"-">> \o Format03d(i),
         region |-> region,
         latitude |-> lat_range[1] + DrawFrom(rng, 1, i, lat_range[2] - lat_range[1] + 1),
         longitude |-> lon_range[1] + DrawFrom(rng, 2, i, lon_range[2] - lon_range[1] + 1),
         depth |-> depth,
         float_status |-> FLOAT_STATUS_OPTIONS[DrawFrom(rng, 4, i, Len(FLOAT_STATUS_OPTIONS)) + 1],
         float_type |-> FLOAT_TYPE_OPTIONS[DrawFrom(rng, 5, i, Len(FLOAT_TYPE_OPTIONS)) + 1],
         timestamp |-> base_date + DrawFrom(rng, 6, i, 30),
         temperature |-> 2000 - (depth \div 2) + 35 * (DrawFrom(rng, 7, i, 3) - 1),
         salinity |-> 3500 + 20 * (DrawFrom(rng, 8, i, 3) - 1),
         cycle_number |-> 10 + DrawFrom(rng, 9, i, 290),
         battery_level |-> 15 + DrawFrom(rng, 10, i, 86)]

(* row i of the catalog of a call made when nothing was drawn from the    *)
(* global generator                                                        *)
CatalogRow(region, i, day) == CatalogRowFrom(MapGenerator(region, 0), region, i, day)

(* generate_dummy_map_data(region) called on day `day` when global_drawn   *)
(* values had been drawn from numpy's global generator                     *)
CatalogFrame(region, day, global_drawn) ==
    [i \in 1..PointCount(region) |->
        CatalogRowFrom(MapGenerator(region, global_drawn), region, i, day)]

(* the columns of the frame, in the order generate_dummy_map_data gives them *)
FRAME_COLUMN_LIST ==
    <<"float_id", "region", "latitude", "longitude", "depth", "float_status", "float_type",
      "timestamp", "temperature", "salinity", "cycle_number", "battery_level">>

FRAME_COLUMNS == SeqToSet(FRAME_COLUMN_LIST)

(* every column of the frame generate_dummy_map_data returns: last_profile *)
(* and hover, which no filter reads, are left out of the rows above        *)
CATALOG_COLUMNS == FRAME_COLUMN_LIST \o <<"last_profile", "hover">>

Days == 30..31   \* the days on which a catalog is generated

(* region keys the model passes to the generator; "atlantis" is no key of  *)
(* REGION_CONFIGS                                                          *)
RegionKeysUsed == {"indian_ocean", "arabian_sea", "bay_of_bengal", "pacific_basin", "atlantis"}

(* the frames generate_dummy_map_data builds, by region and day of the call *)
Catalogs ==
    [region \in RegionKeysUsed, day \in Days |->
        [i \in 1..PointCount(region) |-> CatalogRow(region, i, day)]]

(* generate_dummy_map_data(region), called on day `day` *)
generate_dummy_map_data(region, day) == Catalogs[region, day]

-----------------------------------------------------------------------------
(* Filter engine *)

(* An argument that may be None or a list *)
PyNone == [none |-> TRUE, val |-> <<>>]
PyList(s) == [none |-> FALSE, val |-> s]

(* bool(arg): None and the empty list are falsy *)
Truthy(arg) == ~arg.none /\ arg.val # <<>>

(* the pair taken as given, without sorting *)
UnsortedPair(p) == p

(* sorted(pair) *)
SortedPair(p) == IF p[1] <= p[2] THEN <<p[1], p[2]>> ELSE <<p[2], p[1]>>

(* a range test that leaves the endpoints out *)
BetweenExclusive(x, lo, hi) == lo < x /\ x < hi

(* Series.between(lo, hi), inclusive="both" *)
Between(x, lo, hi) == lo <= x /\ x <= hi

RECURSIVE ConcatFrames(_)
(* pd.concat(frames, ignore_index=True) *)
ConcatFrames(frames) ==
    IF frames = <<>> THEN <<>> ELSE Head(frames) \o ConcatFrames(Tail(frames))

RECURSIVE InsertByTimestamp(_, _)
InsertByTimestamp(row, sorted) ==
    IF sorted = <<>> THEN <<row>>
    ELSE IF row.timestamp < Head(sorted).timestamp THEN <<row>> \o sorted
    ELSE <<Head(sorted)>> \o InsertByTimestamp(row, Tail(sorted))

RECURSIVE SortByTimestamp(_)
(* DataFrame.sort_values("timestamp").reset_index(drop=True); equal        *)
(* timestamps stay in frame order                                          *)
SortByTimestamp(rows) ==
    IF rows = <<>> THEN <<>>
    ELSE InsertByTimestamp(rows[Len(rows)], SortByTimestamp(SubSeq(rows, 1, Len(rows) - 1)))

(* any(date_range): some endpoint is present *)
AnyPresent(endpoints) == \E i \in 1..Len(endpoints) : endpoints[i] # None

(* all(date_range): every endpoint is present *)
AllPresent(endpoints) == \A i \in 1..Len(endpoints) : endpoints[i] # None

(* the regions whose catalogs build_filtered_dataset concatenates *)
RegionKeys(regions) == IF Truthy(regions) THEN regions.val ELSE <<DEFAULT_REGION>>

FilterLat(rows, lat_range) ==
    IF Truthy(lat_range) /\ Len(lat_range.val) = 2
    THEN LET lat == SortedPair(lat_range.val)
         IN  SelectSeq(rows, LAMBDA r : Between(r.latitude, lat[1], lat[2]))
    ELSE rows

FilterLon(rows, lon_range) ==
    IF Truthy(lon_range) /\ Len(lon_range.val) = 2
    THEN LET lon == SortedPair(lon_range.val)
         IN  SelectSeq(rows, LAMBDA r : Between(r.longitude, lon[1], lon[2]))
    ELSE rows

FilterDepth(rows, depth_range) ==
    IF Truthy(depth_range) /\ Len(depth_range.val) = 2
    THEN LET depth == SortedPair(depth_range.val)
         IN  SelectSeq(rows, LAMBDA r : Between(r.depth, depth[1], depth[2]))
    ELSE rows

(* the date window filters only when both endpoints are present *)
DateActive(date_range) == Truthy(date_range) /\ AllPresent(date_range.val)

(* timestamp >= date and timestamp <= date, for a date pd.to_datetime made *)
(* of an endpoint: a day, or NaT for None; a comparison with NaT is False  *)
NotBefore(timestamp, date) == date # None /\ timestamp >= date[1]
NotAfter(timestamp, date) == date # None /\ timestamp <= date[1]

FilterDate(rows, date_range) ==
    IF DateActive(date_range)
    THEN LET start_date == date_range.val[1]
             end_date == date_range.val[2]
         IN  SelectSeq(rows, LAMBDA r : NotBefore(r.timestamp, start_date)
                                        /\ NotAfter(r.timestamp, end_date))
    ELSE rows

FilterStatus(rows, statuses) ==
    IF Truthy(statuses)
    THEN SelectSeq(rows, LAMBDA r : InList(r.float_status, statuses.val))
    ELSE rows

FilterType(rows, float_types) ==
    IF Truthy(float_types)
    THEN SelectSeq(rows, LAMBDA r : InList(r.float_type, float_types.val))
    ELSE rows

(* build_filtered_dataset with the status filter taken from the whole      *)
(* catalog instead of the frame filtered so far                            *)
build_filtered_dataset_status_on_catalog(a, day) ==
    LET region_keys == RegionKeys(a.regions)
        frames == [k \in 1..Len(region_keys) |-> generate_dummy_map_data(region_keys[k], day)]
        d0 == ConcatFrames(frames)
        d1 == FilterLat(d0, a.lat_range)
        d2 == FilterLon(d1, a.lon_range)
        d3 == FilterDepth(d2, a.depth_range)
        d4 == FilterDate(d3, a.date_range)
        d5 == IF Truthy(a.statuses) THEN FilterStatus(d0, a.statuses) ELSE d4
        d6 == FilterType(d5, a.float_types)
    IN  SortByTimestamp(d6)

(* build_filtered_dataset(regions, lat_range, lon_range, depth_range,      *)
(*                        date_range, statuses, float_types)               *)
build_filtered_dataset(a, day) ==
    LET region_keys == RegionKeys(a.regions)
        frames == [k \in 1..Len(region_keys) |-> generate_dummy_map_data(region_keys[k], day)]
        d0 == ConcatFrames(frames)
        d1 == FilterLat(d0, a.lat_range)
        d2 == FilterLon(d1, a.lon_range)
        d3 == FilterDepth(d2, a.depth_range)
        d4 == FilterDate(d3, a.date_range)
        d5 == FilterStatus(d4, a.statuses)
        d6 == FilterType(d5, a.float_types)
    IN  SortByTimestamp(d6)

-----------------------------------------------------------------------------
(* Keyword groups of the chat classifier *)

(* self.ocean_regions.keys(), in insertion order: the name and its characters *)
OCEAN_REGION_NAMES ==
    <<[name |-> "Arabian Sea", chars |-> <<"A","r","a","b","i","a","n"," ","S","e","a">>],
      [name |-> "Bay of Bengal", chars |-> <<"B","a","y"," ","o","f"," ","B","e","n","g","a","l">>],
      [name |-> "Indian Ocean", chars |-> <<"I","n","d","i","a","n"," ","O","c","e","a","n">>],
      [name |-> "Pacific Ocean", chars |-> <<"P","a","c","i","f","i","c"," ","O","c","e","a","n">>],
      [name |-> "Atlantic Ocean", chars |-> <<"A","t","l","a","n","t","i","c"," ","O","c","e","a","n">>],
      [name |-> "Southern Ocean", chars |-> <<"S","o","u","t","h","e","r","n"," ","O","c","e","a","n">>],
      [name |-> "Arctic Ocean", chars |-> <<"A","r","c","t","i","c"," ","O","c","e","a","n">>]>>

(* self.float_types: the name and its characters *)
FLOAT_TYPE_NAMES ==
    <<[name |-> "APEX", chars |-> <<"A","P","E","X">>],
      [name |-> "NOVA", chars |-> <<"N","O","V","A">>],
      [name |-> "ARVOR", chars |-> <<"A","R","V","O","R">>],
      [name |-> "PROVOR", chars |-> <<"P","R","O","V","O","R">>],
      [name |-> "SOLO", chars |-> <<"S","O","L","O">>]>>

(* ['active', 'working', 'operational'] *)
ACTIVE_WORDS ==
    {<<"a","c","t","i","v","e">>,
     <<"w","o","r","k","i","n","g">>,
     <<"o","p","e","r","a","t","i","o","n","a","l">>}

(* ['inactive', 'not working', 'dead'] *)
INACTIVE_WORDS ==
    {<<"i","n","a","c","t","i","v","e">>,
     <<"n","o","t"," ","w","o","r","k","i","n","g">>,
     <<"d","e","a","d">>}

(* ['shallow', 'surface', 'top'] *)
SHALLOW_WORDS ==
    {<<"s","h","a","l","l","o","w">>,
     <<"s","u","r","f","a","c","e">>,
     <<"t","o","p">>}

(* ['deep', 'bottom', 'abyssal'] *)
DEEP_WORDS ==
    {<<"d","e","e","p">>,
     <<"b","o","t","t","o","m">>,
     <<"a","b","y","s","s","a","l">>}

(* ['temperature', 'temp', 'thermal'] *)
TEMPERATURE_WORDS ==
    {<<"t","e","m","p","e","r","a","t","u","r","e">>,
     <<"t","e","m","p">>,
     <<"t","h","e","r","m","a","l">>}

(* ['salinity', 'salt', 'psu'] *)
SALINITY_WORDS ==
    {<<"s","a","l","i","n","i","t","y">>,
     <<"s","a","l","t">>,
     <<"p","s","u">>}

(* ['profile', 'depth'] *)
PROFILE_WORDS ==
    {<<"p","r","o","f","i","l","e">>,
     <<"d","e","p","t","h">>}

(* ['time', 'trend', 'temporal', 'monthly'] *)
TIME_WORDS ==
    {<<"t","i","m","e">>,
     <<"t","r","e","n","d">>,
     <<"t","e","m","p","o","r","a","l">>,
     <<"m","o","n","t","h","l","y">>}

(* ['compare', 'comparison', 'versus', 'vs'] *)
COMPARE_WORDS ==
    {<<"c","o","m","p","a","r","e">>,
     <<"c","o","m","p","a","r","i","s","o","n">>,
     <<"v","e","r","s","u","s">>,
     <<"v","s">>}

(* ['correlation', 'relationship'] *)
CORRELATION_WORDS ==
    {<<"c","o","r","r","e","l","a","t","i","o","n">>,
     <<"r","e","l","a","t","i","o","n","s","h","i","p">>}

(* ['time', 'trend', 'series', 'temporal', 'monthly'] *)
PLOT_TIME_WORDS ==
    {<<"t","i","m","e">>,
     <<"t","r","e","n","d">>,
     <<"s","e","r","i","e","s">>,
     <<"t","e","m","p","o","r","a","l">>,
     <<"m","o","n","t","h","l","y">>}

(* ['compare', 'comparison', 'versus', 'vs', 'between'] *)
PLOT_COMPARE_WORDS ==
    {<<"c","o","m","p","a","r","e">>,
     <<"c","o","m","p","a","r","i","s","o","n">>,
     <<"v","e","r","s","u","s">>,
     <<"v","s">>,
     <<"b","e","t","w","e","e","n">>}

(* ['correlation', 'relationship', 'vs'] *)
PLOT_CORRELATION_WORDS ==
    {<<"c","o","r","r","e","l","a","t","i","o","n">>,
     <<"r","e","l","a","t","i","o","n","s","h","i","p">>,
     <<"v","s">>}

(* ["trend", "time", "series", "monthly"] *)
APP_TREND_WORDS ==
    {<<"t","r","e","n","d">>,
     <<"t","i","m","e">>,
     <<"s","e","r","i","e","s">>,
     <<"m","o","n","t","h","l","y">>}

(* the map_needed words of generate_response *)
MAP_WORDS ==
    {<<"m","a","p">>,
     <<"l","o","c","a","t","i","o","n">>,
     <<"w","h","e","r","e">>,
     <<"f","l","o","a","t","s">>,
     <<"r","e","g","i","o","n">>,
     <<"a","r","a","b","i","a","n"," ","s","e","a">>,
     <<"b","a","y"," ","o","f"," ","b","e","n","g","a","l">>,
     <<"i","n","d","i","a","n"," ","o","c","e","a","n">>,
     <<"p","a","c","i","f","i","c">>,
     <<"a","t","l","a","n","t","i","c">>}

(* ['temperature', 'temp'] *)
TEXT_TEMPERATURE_WORDS ==
    {<<"t","e","m","p","e","r","a","t","u","r","e">>,
     <<"t","e","m","p">>}

(* ['map', 'location', 'where', 'floats'] *)
TEXT_MAP_WORDS ==
    {<<"m","a","p">>,
     <<"l","o","c","a","t","i","o","n">>,
     <<"w","h","e","r","e">>,
     <<"f","l","o","a","t","s">>}

STR_temperature == <<"t","e","m","p","e","r","a","t","u","r","e">>
STR_salinity == <<"s","a","l","i","n","i","t","y">>
STR_profile == <<"p","r","o","f","i","l","e">>
STR_depth == <<"d","e","p","t","h">>
STR_compare == <<"c","o","m","p","a","r","e">>
STR_comparison == <<"c","o","m","p","a","r","i","s","o","n">>
STR_correlation == <<"c","o","r","r","e","l","a","t","i","o","n">>
STR_relationship == <<"r","e","l","a","t","i","o","n","s","h","i","p">>
STR_arabian_sea == <<"a","r","a","b","i","a","n"," ","s","e","a">>
STR_bay_of_bengal == <<"b","a","y"," ","o","f"," ","b","e","n","g","a","l">>
STR_indian_ocean == <<"i","n","d","i","a","n"," ","o","c","e","a","n">>

-----------------------------------------------------------------------------
(* Chat classifier: EnhancedDataGenerator and ChatResponseGenerator *)

(* A data frame: its column names and its rows *)
Frame(rows) == [columns |-> FRAME_COLUMNS, rows |-> rows]

DepthOf(r, depth_col) == IF depth_col = "depth" THEN r.depth ELSE r.max_depth

(* the depth column chosen with 'max_depth' tested first *)
DepthColumnPreferMaxDepth(columns) ==
    IF "max_depth" \in columns THEN Some("max_depth")
    ELSE IF "depth" \in columns THEN Some("depth")
    ELSE None

(* depth_col: 'depth' if the frame has it, else 'max_depth', else None *)
DepthColumn(columns) ==
    IF "depth" \in columns THEN Some("depth")
    ELSE IF "max_depth" \in columns THEN Some("max_depth")
    ELSE None

(* the status branch taken by the if / elif on the status words *)
StatusWord(query_lower) ==
    IF AnyIn(query_lower, ACTIVE_WORDS) THEN Some("Active")
    ELSE IF AnyIn(query_lower, INACTIVE_WORDS) THEN Some("Inactive")
    ELSE None

(* the first float type whose lower-cased name occurs in the query *)
FirstFloatType(query_lower) ==
    LET hits == SelectSeq(FLOAT_TYPE_NAMES, LAMBDA t : Contains(query_lower, Lower(t.chars)))
    IN  IF hits = <<>> THEN None ELSE Some(Head(hits).name)

(* the if / elif chain that sets filters_applied['analysis_type'] *)
AnalysisType(query_lower) ==
    IF AnyIn(query_lower, PROFILE_WORDS) THEN Some("Profile Analysis")
    ELSE IF AnyIn(query_lower, TIME_WORDS) THEN Some("Time Series")
    ELSE IF AnyIn(query_lower, COMPARE_WORDS) THEN Some("Regional Comparison")
    ELSE IF AnyIn(query_lower, CORRELATION_WORDS) THEN Some("Correlation Analysis")
    ELSE None

(* EnhancedDataGenerator.apply_chat_filters(query, base_data); a filter   *)
(* under an if keeps every row when the branch is not taken                *)
apply_chat_filters(q, base_data) ==
    LET query_lower == Lower(q)
        columns == base_data.columns
        detected == SelectSeq(OCEAN_REGION_NAMES, LAMBDA n : Contains(query_lower, Lower(n.chars)))
        detected_regions == [i \in 1..Len(detected) |-> detected[i].name]
        d1 == SelectSeq(base_data.rows,
                        LAMBDA r : detected_regions # <<>> => InList(r.region, detected_regions))
        status == IF "float_status" \in columns THEN StatusWord(query_lower) ELSE None
        d2 == SelectSeq(d1, LAMBDA r : status # None => r.float_status = status[1])
        depth_col == DepthColumn(columns)
        shallow == depth_col # None /\ AnyIn(query_lower, SHALLOW_WORDS)
        deep == ~shallow /\ depth_col # None /\ AnyIn(query_lower, DEEP_WORDS)
        d3 == SelectSeq(d2,
                        LAMBDA r : IF shallow
                                   THEN DepthOf(r, depth_col[1]) <
                                           (IF depth_col[1] = "depth" THEN 500 ELSE 1000)
                                   ELSE deep => DepthOf(r, depth_col[1]) >
                                           (IF depth_col[1] = "depth" THEN 1000 ELSE 1500))
        depth == IF shallow
                 THEN Some(IF depth_col[1] = "depth" THEN "Shallow (<500m)" ELSE "Shallow (<1000m)")
                 ELSE IF deep
                 THEN Some(IF depth_col[1] = "depth" THEN "Deep (>1000m)" ELSE "Deep (>1500m)")
                 ELSE None
        float_type == IF "float_type" \in columns THEN FirstFloatType(query_lower) ELSE None
        d4 == SelectSeq(d3, LAMBDA r : float_type # None => r.float_type = float_type[1])
        temperature == AnyIn(query_lower, TEMPERATURE_WORDS)
        salinity == AnyIn(query_lower, SALINITY_WORDS)
        d5 == SelectSeq(d4, LAMBDA r : (temperature /\ "temperature" \in columns)
                                          => Between(r.temperature, -200, 4000))
        d6 == SelectSeq(d5, LAMBDA r : (salinity /\ "salinity" \in columns)
                                          => Between(r.salinity, 3000, 4000))
    IN  [filtered_data |-> [columns |-> columns, rows |-> d6],
         filters_applied |->
            [region |-> detected_regions,
             status |-> status,
             depth |-> depth,
             float_type |-> float_type,
             parameter_focus |-> IF salinity THEN Some("Salinity")
                                 ELSE IF temperature THEN Some("Temperature")
                                 ELSE None,
             analysis_type |-> AnalysisType(query_lower)]]

(* bool(filters_applied): some key was set *)
FiltersSet(f) == \E k \in DOMAIN f : f[k] # <<>>

(* EnhancedDataGenerator.generate_chat_driven_plots(query, data): the      *)
(* kinds of the figures, in list order                                     *)
enhanced_generate_chat_driven_plots(q, data) ==
    LET query_lower == Lower(q)
        plots ==
            (IF AnyIn(query_lower, TEMPERATURE_WORDS) THEN <<"temperature_profile">> ELSE <<>>)
            \o (IF AnyIn(query_lower, SALINITY_WORDS) THEN <<"salinity_profile">> ELSE <<>>)
            \o (IF AnyIn(query_lower, PLOT_TIME_WORDS) THEN <<"time_series">> ELSE <<>>)
            \o (IF AnyIn(query_lower, PLOT_COMPARE_WORDS) THEN <<"regional_comparison">> ELSE <<>>)
            \o (IF AnyIn(query_lower, PLOT_CORRELATION_WORDS) THEN <<"correlation">> ELSE <<>>)
    IN  IF plots = <<>> THEN <<"overview">> ELSE plots

(* the chain of app.py with the comparison branch tested first *)
generate_chat_driven_plots_compare_first(user_query, filtered_data, filters_applied) ==
    LET query_lower == Lower(user_query)
    IN  IF Contains(query_lower, STR_compare) \/ Contains(query_lower, STR_comparison)
        THEN <<"regional_comparison">>
        ELSE IF Contains(query_lower, STR_temperature)
                /\ (Contains(query_lower, STR_profile) \/ Contains(query_lower, STR_depth))
        THEN <<"temperature_profile">>
        ELSE IF Contains(query_lower, STR_salinity)
                /\ (Contains(query_lower, STR_profile) \/ Contains(query_lower, STR_depth))
        THEN <<"salinity_profile">>
        ELSE IF AnyIn(query_lower, APP_TREND_WORDS)
        THEN <<"time_series">>
        ELSE IF Contains(query_lower, STR_correlation) \/ Contains(query_lower, STR_relationship)
        THEN <<"correlation">>
        ELSE IF filtered_data.rows # <<>> THEN <<"overview">> ELSE <<>>

(* generate_chat_driven_plots(user_query, filtered_data, filters_applied)  *)
(* of app.py: the kinds of the figures, in list order                      *)
generate_chat_driven_plots(user_query, filtered_data, filters_applied) ==
    LET query_lower == Lower(user_query)
    IN  IF Contains(query_lower, STR_temperature)
           /\ (Contains(query_lower, STR_profile) \/ Contains(query_lower, STR_depth))
        THEN <<"temperature_profile">>
        ELSE IF Contains(query_lower, STR_salinity)
                /\ (Contains(query_lower, STR_profile) \/ Contains(query_lower, STR_depth))
        THEN <<"salinity_profile">>
        ELSE IF AnyIn(query_lower, APP_TREND_WORDS)
        THEN <<"time_series">>
        ELSE IF Contains(query_lower, STR_compare) \/ Contains(query_lower, STR_comparison)
        THEN <<"regional_comparison">>
        ELSE IF Contains(query_lower, STR_correlation) \/ Contains(query_lower, STR_relationship)
        THEN <<"correlation">>
        ELSE IF filtered_data.rows # <<>> THEN <<"overview">> ELSE <<>>

(* ChatResponseGenerator._generate_text_response: the sentences of the     *)
(* reply, each named by its kind                                           *)
generate_text_response(q, data, filters) ==
    LET query_lower == Lower(q)
        summary ==
            IF data.rows # <<>>
            THEN <<"found">>
                 \o (IF filters.parameter_focus = Some("Temperature") /\ "temperature" \in data.columns
                     THEN <<"average_temperature">>
                     ELSE IF filters.parameter_focus = Some("Salinity") /\ "salinity" \in data.columns
                     THEN <<"average_salinity">>
                     ELSE <<>>)
                 \o (IF filters.region # <<>> THEN <<"focus_regions">> ELSE <<>>)
            ELSE <<"no_match">>
        responses ==
            summary
            \o (IF FiltersSet(filters) THEN <<"applied_filters">> ELSE <<>>)
            \o (IF AnyIn(query_lower, TEXT_TEMPERATURE_WORDS) THEN <<"temperature_note">> ELSE <<>>)
            \o (IF AnyIn(query_lower, SALINITY_WORDS) THEN <<"salinity_note">> ELSE <<>>)
            \o (IF AnyIn(query_lower, TIME_WORDS) THEN <<"time_series_note">> ELSE <<>>)
            \o (IF AnyIn(query_lower, COMPARE_WORDS) THEN <<"comparison_note">> ELSE <<>>)
            \o (IF AnyIn(query_lower, CORRELATION_WORDS) THEN <<"correlation_note">> ELSE <<>>)
            \o (IF AnyIn(query_lower, TEXT_MAP_WORDS) THEN <<"map_note">> ELSE <<>>)
            \o (IF AnyIn(query_lower, PROFILE_WORDS) THEN <<"profile_note">> ELSE <<>>)
            \o (IF Contains(query_lower, STR_arabian_sea) THEN <<"arabian_sea_note">>
                ELSE IF Contains(query_lower, STR_bay_of_bengal) THEN <<"bay_of_bengal_note">>
                ELSE IF Contains(query_lower, STR_indian_ocean) THEN <<"indian_ocean_note">>
                ELSE <<>>)
    IN  IF Len(responses) = 1 /\ FiltersSet(filters) THEN responses \o <<"analysis_complete">>
        ELSE IF Len(responses) = 1 THEN responses \o <<"try_asking">>
        ELSE responses

(* the dictionary generate_response returns for what apply_chat_filters   *)
(* returned                                                                *)
ResponseFor(user_input, filtered_data, filters_applied) ==
    [text |-> generate_text_response(user_input, filtered_data, filters_applied),
     figures |-> enhanced_generate_chat_driven_plots(user_input, filtered_data),
     filtered_data |-> filtered_data,
     filters_applied |-> filters_applied,
     map_needed |-> AnyIn(Lower(user_input), MAP_WORDS)]

(* the two values apply_chat_filters returns, unpacked *)
Unpacked(user_input, applied) ==
    ResponseFor(user_input, applied.filtered_data, applied.filters_applied)

(* ChatResponseGenerator.generate_response(user_input, base_data) *)
generate_response(user_input, base_data) ==
    Unpacked(user_input, apply_chat_filters(user_input, base_data))

-----------------------------------------------------------------------------
(* Chat store *)

(* QUICK_QUERY_LOOKUP: bubble key -> query *)
QUICK_QUERY_LOOKUP ==
    [temperature_arabian |->
        <<"S","h","o","w"," ","m","e"," ","t","e","m","p","e","r","a","t","u","r","e"," ","p","r","o","f","i","l","e"," ","i","n"," ","t","h","e"," ","A","r","a","b","i","a","n"," ","S","e","a"," ","r","e","g","i","o","n",".">>,
     salinity_bengal |->
        <<"S","a","l","i","n","i","t","y"," ","p","r","o","f","i","l","e"," ","i","n"," ","B","a","y"," ","o","f"," ","B","e","n","g","a","l">>,
     active_floats |->
        <<"W","h","e","r","e"," ","a","r","e"," ","t","h","e"," ","a","c","t","i","v","e"," ","f","l","o","a","t","s"," ","c","u","r","r","e","n","t","l","y"," ","r","e","p","o","r","t","i","n","g","?">>,
     temp_sal_comparison |->
        <<"C","o","m","p","a","r","e"," ","t","e","m","p","e","r","a","t","u","r","e"," ","a","n","d"," ","s","a","l","i","n","i","t","y"," ","t","r","e","n","d","s">>,
     monthly_trends |->
        <<"S","h","o","w"," ","m","o","n","t","h","l","y"," ","a","v","e","r","a","g","e"," ","t","e","m","p","e","r","a","t","u","r","e"," ","t","r","e","n","d">>,
     depth_profiles |->
        <<"D","e","p","t","h"," ","p","r","o","f","i","l","e"," ","o","f"," ","t","e","m","p","e","r","a","t","u","r","e"," ","a","n","d"," ","s","a","l","i","n","i","t","y">>,
     regional_comparison |->
        <<"C","o","m","p","a","r","e"," ","o","c","e","a","n"," ","r","e","g","i","o","n","s"," ","t","e","m","p","e","r","a","t","u","r","e"," ","d","a","t","a">>,
     correlation_analysis |->
        <<"S","h","o","w"," ","c","o","r","r","e","l","a","t","i","o","n"," ","b","e","t","w","e","e","n"," ","t","e","m","p","e","r","a","t","u","r","e"," ","a","n","d"," ","s","a","l","i","n","i","t","y">>]

STR_New_Chat == <<"N","e","w"," ","C","h","a","t">>

MaxConversations == 3   \* conversations created in a run
MaxMessages == 4        \* messages stored in a run

DEFAULT_CHAT_STORE ==
    [conversations |-> <<>>,
     active_id |-> None,
     conversation_counter |-> 0,
     message_counter |-> 0]

(* initialize_store(data): a deep copy of the store with the default keys *)
initialize_store(data) ==
    [conversations |-> data.conversations,
     active_id |-> data.active_id,
     conversation_counter |-> data.conversation_counter,
     message_counter |-> data.message_counter]

(* what a mislaid comparison of ids would do: never find the conversation *)
ConversationIndexNeverFound(conversations, id) == 0

(* position of the first conversation with this id, 0 when there is none *)
ConversationIndex(conversations, id) ==
    IF \E i \in 1..Len(conversations) : conversations[i].id = id
    THEN CHOOSE i \in 1..Len(conversations) :
            /\ conversations[i].id = id
            /\ \A j \in 1..(i - 1) : conversations[j].id # id
    ELSE 0

(* a new id that forgets the increment *)
NewConversationIdReused(conversation_counter) == conversation_counter

(* new_id = store["conversation_counter"] + 1 *)
NewConversationId(conversation_counter) == conversation_counter + 1

(* a message id that forgets the increment *)
NextMessageIdStuck(message_counter) == message_counter

(* store["message_counter"] += 1 *)
NextMessageId(message_counter) == message_counter + 1

(* ensure_active_conversation that creates the conversation and leaves    *)
(* conversation_counter as it was                                          *)
ensure_active_conversation_counter_kept(s) ==
    LET found == IF s.active_id # None
                 THEN ConversationIndex(s.conversations, s.active_id[1])
                 ELSE 0
        new_id == NewConversationId(s.conversation_counter)
        new_conversation == [id |-> new_id, title |-> STR_New_Chat, messages |-> <<>>]
    IN  IF found > 0
        THEN [store |-> s, index |-> found]
        ELSE [store |-> [s EXCEPT !.conversations = <<new_conversation>> \o
                                      SelectSeq(s.conversations, LAMBDA c : c.id # new_id),
                                  !.active_id = Some(new_id)],
              index |-> 1]

(* ensure_active_conversation(store): the store afterwards and the         *)
(* position in it of the conversation the function returns                 *)
ensure_active_conversation(s) ==
    LET found == IF s.active_id # None
                 THEN ConversationIndex(s.conversations, s.active_id[1])
                 ELSE 0
        new_id == NewConversationId(s.conversation_counter)
        new_conversation == [id |-> new_id, title |-> STR_New_Chat, messages |-> <<>>]
    IN  IF found > 0
        THEN [store |-> s, index |-> found]
        ELSE [store |-> [s EXCEPT !.conversation_counter = new_id,
                                  !.conversations = <<new_conversation>> \o
                                      SelectSeq(s.conversations, LAMBDA c : c.id # new_id),
                                  !.active_id = Some(new_id)],
              index |-> 1]

(* update_conversation_title(conversation): the new title *)
update_conversation_title(conversation) ==
    LET users == SelectSeq(conversation.messages, LAMBDA m : m.sender = "user")
        first_user_message == IF users = <<>> THEN <<>> ELSE Strip(Head(users).content)
    IN  IF first_user_message # <<>>
        THEN Strip(Take(first_user_message, 33)) \o
             (IF Len(first_user_message) > 36 THEN <<"...">> ELSE <<>>)
        ELSE STR_New_Chat

(* the conversation put behind the others instead of in front *)
PutLast(conversation, conversations) ==
    SelectSeq(conversations, LAMBDA c : c.id # conversation.id) \o <<conversation>>

(* [conversation, *[conv for conv in conversations if conv["id"] != conversation["id"]]] *)
PutFirst(conversation, conversations) ==
    <<conversation>> \o SelectSeq(conversations, LAMBDA c : c.id # conversation.id)

(* current_value or "" *)
OrEmpty(current_value) == IF current_value = None THEN <<>> ELSE current_value[1]

(* texts typed into the chat input *)
InputTexts ==
    {<<" ", " ">>,
     <<" ", "D", "e", "a", "d", " ">>}

(* keys of the quick-bubble buttons an event may carry *)
BubbleKeys == {"active_floats", "no_such_bubble"}

(* the messages those inputs can send *)
SendableMessages ==
    ({Strip(t) : t \in InputTexts}
     \cup {Strip(QUICK_QUERY_LOOKUP[k]) : k \in BubbleKeys \cap DOMAIN QUICK_QUERY_LOOKUP})
    \ {<<>>}

(* base_data of process_chat_events, by day of the call *)
ChatBaseData ==
    [day \in Days |->
        Frame(build_filtered_dataset(
                  [regions |-> PyList(<<"arabian_sea", "bay_of_bengal", "indian_ocean">>),
                   lat_range |-> PyNone, lon_range |-> PyNone, depth_range |-> PyNone,
                   date_range |-> PyNone,
                   statuses |-> PyList(<<>>), float_types |-> PyList(<<>>)], day))]

(* chat_response_generator.generate_response(message_to_send, base_data),  *)
(* by message and day of the call                                          *)
ChatResponses ==
    [message \in SendableMessages, day \in Days |->
        generate_response(message, ChatBaseData[day])]

(* the bot message process_chat_events builds for a sent message *)
BotMessage(message_to_send, bot_message_id, response_data) ==
    LET sidebar_payload ==
            IF response_data.map_needed \/ response_data.figures # <<>>
            THEN Some([region |-> "indian_ocean",
                       source_query |-> message_to_send,
                       filters_applied |-> response_data.filters_applied,
                       filtered_data_count |-> Len(response_data.filtered_data.rows),
                       enhanced_plots |-> response_data.figures])
            ELSE None
    IN  [id |-> bot_message_id, sender |-> "bot", content |-> response_data.text,
         sidebar_payload |-> sidebar_payload]

(* the user message process_chat_events stores; it has no sidebar payload *)
UserMessage(message_to_send, user_message_id) ==
    [id |-> user_message_id, sender |-> "user", content |-> message_to_send,
     sidebar_payload |-> None]

(* the conversation with the title update_conversation_title gives it *)
Retitled(conversation) ==
    [conversation EXCEPT !.title = update_conversation_title(conversation)]

(* the store with the conversation moved to the front and made active *)
Activated(s, conversation, message_counter) ==
    [s EXCEPT !.message_counter = message_counter,
              !.conversations = PutFirst(conversation, s.conversations),
              !.active_id = Some(conversation.id)]

(* the send that stores the user message and no reply *)
SendMessageUserOnly(ensured, message_to_send, response_data) ==
    LET s1 == ensured.store
        user_message_id == NextMessageId(s1.message_counter)
        found == s1.conversations[ensured.index]
        appended == [found EXCEPT !.messages =
                        found.messages \o <<UserMessage(message_to_send, user_message_id)>>]
    IN  [store |-> Activated(s1, Retitled(appended), user_message_id),
         value |-> <<>>]

(* the part of process_chat_events that stores a message and its reply:    *)
(* `ensured` is what ensure_active_conversation returned, `response_data`  *)
(* what generate_response returned                                         *)
SendMessage(ensured, message_to_send, response_data) ==
    LET s1 == ensured.store
        user_message_id == NextMessageId(s1.message_counter)
        bot_message_id == NextMessageId(user_message_id)
        found == s1.conversations[ensured.index]
        appended == [found EXCEPT !.messages =
                        found.messages
                        \o <<UserMessage(message_to_send, user_message_id)>>
                        \o <<BotMessage(message_to_send, bot_message_id, response_data)>>]
    IN  [store |-> Activated(s1, Retitled(appended), bot_message_id),
         value |-> <<>>]

(* the part of process_chat_events that opens a new chat *)
NewChatOpened(ensured) ==
    LET s1 == ensured.store
        cleared == [s1.conversations[ensured.index] EXCEPT !.messages = <<>>]
    IN  [store |-> [s1 EXCEPT !.conversations = PutFirst(Retitled(cleared), s1.conversations)],
         value |-> <<>>]

(* process_chat_events(..., current_value, store_data) for the trigger     *)
(* ctx.triggered_id: the two outputs (chat-store data, chat-input value)   *)
process_chat_events(triggered_id, current_value, store_data, day) ==
    LET s0 == initialize_store(store_data)
    IN  IF triggered_id.kind = "new-chat-btn"
        THEN NewChatOpened(ensure_active_conversation([s0 EXCEPT !.active_id = None]))
        ELSE IF triggered_id.kind = "history-entry"
        THEN LET selected_id == triggered_id.index
             IN  [store |-> [s0 EXCEPT
                        !.active_id = Some(selected_id),
                        !.conversations =
                            SelectSeq(s0.conversations, LAMBDA c : c.id = selected_id) \o
                            SelectSeq(s0.conversations, LAMBDA c : c.id # selected_id)],
                  value |-> <<>>]
        ELSE LET message_to_send ==
                     IF triggered_id.kind = "quick-bubble"
                     THEN Strip(IF triggered_id.key \in DOMAIN QUICK_QUERY_LOOKUP
                                THEN QUICK_QUERY_LOOKUP[triggered_id.key]
                                ELSE <<>>)
                     ELSE Strip(OrEmpty(current_value))
             IN  IF triggered_id.kind \notin {"quick-bubble", "send-button", "chat-input"}
                 THEN [store |-> s0, value |-> OrEmpty(current_value)]
                 ELSE IF message_to_send = <<>>
                 THEN [store |-> s0, value |-> OrEmpty(current_value)]
                 ELSE SendMessage(ensure_active_conversation(s0), message_to_send,
                                  ChatResponses[message_to_send, day])

-----------------------------------------------------------------------------
(* Rendering of the chat store *)

(* the placeholder render_chat_messages returns for no message *)
EMPTY_STATE == [kind |-> "chat-empty-state", message_id |-> 0, sender |-> ""]

(* build_chat_message(message): the bubble, with the message id as its key *)
build_chat_message(message) ==
    [kind |-> "chat-message", message_id |-> message.id, sender |-> message.sender]

(* render_chat_messages(messages) *)
render_chat_messages(messages) ==
    IF messages = <<>> THEN <<EMPTY_STATE>>
    ELSE [i \in 1..Len(messages) |-> build_chat_message(messages[i])]

(* render_meta or {"last_rendered_id": 0, "active_conversation_id": None} *)
RenderState(meta) ==
    IF meta = None THEN [last_rendered_id |-> 0, active_conversation_id |-> None]
    ELSE meta[1]

(* the conversation render_chat_from_store shows: the one active_id names, *)
(* else the first one, else none                                           *)
ActiveConversation(s) ==
    LET named == SelectSeq(s.conversations, LAMBDA c : Some(c.id) = s.active_id)
    IN  IF named # <<>> THEN Some(Head(named))
        ELSE IF s.conversations # <<>> THEN Some(s.conversations[1])
        ELSE None

(* max(message_ids, default=0) *)
LatestId(messages) ==
    IF messages = <<>> THEN 0
    ELSE CHOOSE n \in {messages[i].id : i \in 1..Len(messages)} :
             \A i \in 1..Len(messages) : messages[i].id <= n

(* render_chat_from_store(store_data, render_meta): what goes to the       *)
(* children of "chat-history" (a full list, a Patch of appended bubbles or *)
(* no_update) and the new "chat-render-meta"                               *)
render_chat_from_store(store_data, meta) ==
    LET active_conversation == ActiveConversation(initialize_store(store_data))
        render_state == RenderState(meta)
    IN  IF active_conversation = None
        THEN [children |-> [update |-> "replace", items |-> render_chat_messages(<<>>)],
              meta |-> [last_rendered_id |-> 0, active_conversation_id |-> None]]
        ELSE LET messages == active_conversation[1].messages
                 new_meta == [last_rendered_id |-> LatestId(messages),
                              active_conversation_id |-> Some(active_conversation[1].id)]
                 new_messages == SelectSeq(messages,
                                     LAMBDA m : m.id > render_state.last_rendered_id)
             IN  IF Some(active_conversation[1].id) # render_state.active_conversation_id
                 THEN [children |-> [update |-> "replace",
                                     items |-> render_chat_messages(messages)],
                       meta |-> new_meta]
                 ELSE IF new_messages = <<>>
                 THEN [children |-> [update |-> "no_update", items |-> <<>>],
                       meta |-> new_meta]
                 ELSE [children |-> [update |-> "patch",
                                     items |-> [i \in 1..Len(new_messages) |->
                                                   build_chat_message(new_messages[i])]],
                       meta |-> new_meta]

(* what the browser makes of the children output *)
UpdatedChildren(children, output) ==
    IF output.update = "replace" THEN output.items
    ELSE IF output.update = "patch" THEN children \o output.items
    ELSE children

-----------------------------------------------------------------------------
(* Sidebar callbacks over the filter engine *)

PARAMETER_COLUMN_MAP ==
    <<[parameter |-> "Temperature", column |-> "temperature"],
      [parameter |-> "Salinity", column |-> "salinity"],
      [parameter |-> "Depth", column |-> "depth"]>>

PARAMETER_UNITS == [Temperature |-> "degC", Salinity |-> "PSU", Depth |-> "m"]

(* PARAMETER_COLUMN_MAP.get(parameter) *)
ParameterColumn(parameter) ==
    LET hit == SelectSeq(PARAMETER_COLUMN_MAP, LAMBDA e : e.parameter = parameter)
    IN  IF hit = <<>> THEN None ELSE Some(Head(hit).column)

(* PARAMETER_UNITS.get(parameter, "") *)
ParameterUnit(parameter) ==
    IF parameter \in DOMAIN PARAMETER_UNITS THEN PARAMETER_UNITS[parameter] ELSE ""

(* a float that is the quotient of two integers *)
Quotient(num, den) == [num |-> num, den |-> den]

RECURSIVE InsertSorted(_, _)
InsertSorted(x, sorted) ==
    IF sorted = <<>> THEN <<x>>
    ELSE IF x <= Head(sorted) THEN <<x>> \o sorted
    ELSE <<Head(sorted)>> \o InsertSorted(x, Tail(sorted))

RECURSIVE SortValues(_)
SortValues(values) ==
    IF values = <<>> THEN <<>> ELSE InsertSorted(Head(values), SortValues(Tail(values)))

(* dataset[column].dropna(): the cells of the column that are not null; a  *)
(* cell of these frames is None (null) or a value                          *)
DropNa(data_frame, column) ==
    LET cells == [i \in 1..Len(data_frame.rows) |-> data_frame.rows[i][column]]
        kept == SelectSeq(cells, LAMBDA cell : cell # None)
    IN  [i \in 1..Len(kept) |-> kept[i][1]]

SeriesMean(series) == Quotient(SumSeq(series), Len(series))

SeriesMedian(series) ==
    LET sorted == SortValues(series)
        n == Len(sorted)
    IN  IF n % 2 = 1 THEN Quotient(sorted[(n + 1) \div 2], 1)
        ELSE Quotient(sorted[n \div 2] + sorted[(n \div 2) + 1], 2)

SeriesMin(series) == Quotient(Head(SortValues(series)), 1)
SeriesMax(series) == Quotient(SortValues(series)[Len(series)], 1)

(* DataFrame.empty: no row or no column *)
IsEmptyFrame(data_frame) == data_frame.rows = <<>> \/ data_frame.columns = {}

ReturnedNone == [kind |-> "none"]
Raised(error) == [kind |-> "raised", error |-> error]

(* the dictionary compute_parameter_snapshot returns *)
Snapshot(snapshot_label, value, unit, method) ==
    [kind |-> "record", label |-> snapshot_label, value |-> value, unit |-> unit,
     method |-> method]

(* the aggregate of the series chosen by the if / elif chain on method *)
Aggregate(series, method) ==
    IF method = "Mean" THEN SeriesMean(series)
    ELSE IF method = "Median" THEN SeriesMedian(series)
    ELSE IF method = "Min" THEN SeriesMin(series)
    ELSE IF method = "Max" THEN SeriesMax(series)
    ELSE SeriesMean(series)

(* the part of compute_parameter_snapshot after the Location branch *)
SnapshotOfColumn(data_frame, parameter, method_given, column) ==
    IF column = None \/ column[1] \notin data_frame.columns THEN ReturnedNone
    ELSE IF DropNa(data_frame, column[1]) = <<>> THEN ReturnedNone
    ELSE LET method == IF method_given = None \/ method_given[1] = "" THEN "Mean"
                       ELSE method_given[1]
         IN  Snapshot(parameter, Aggregate(DropNa(data_frame, column[1]), method),
                      ParameterUnit(parameter), method)

(* compute_parameter_snapshot(dataset, parameter, method): what it returns, *)
(* or the KeyError dataset["float_id"] raises when the frame has no such   *)
(* column                                                                  *)
compute_parameter_snapshot(data_frame, parameter, method) ==
    IF IsEmptyFrame(data_frame) \/ parameter = None \/ parameter[1] = "" THEN ReturnedNone
    ELSE IF parameter[1] = "Location"
    THEN IF "float_id" \notin data_frame.columns THEN Raised("KeyError")
         ELSE Snapshot("Unique Floats",
                       Cardinality(SeqToSet(DropNa(data_frame, "float_id"))), "count", "Count")
    ELSE SnapshotOfColumn(data_frame, parameter[1], method, ParameterColumn(parameter[1]))

(* the date window update_sidebar_content and export_sidebar_data take     *)
(* from sidebar_context["filters_applied"]["date_range"]                   *)
DateWindow(sidebar_context) ==
    IF sidebar_context = None THEN PyNone
    ELSE LET candidate == sidebar_context[1].filters_applied.date_range
         IN  IF Truthy(candidate) /\ Len(candidate.val) = 2 /\ AllPresent(candidate.val)
             THEN candidate
             ELSE PyNone

(* region_filter if region_filter else [context.get("region", DEFAULT_REGION)] *)
SelectedRegions(sidebar_context, region_filter) ==
    IF Truthy(region_filter) THEN region_filter
    ELSE PyList(<<IF sidebar_context = None \/ sidebar_context[1].region = None
                  THEN DEFAULT_REGION
                  ELSE sidebar_context[1].region[1]>>)

(* status_filter or [] *)
OrEmptyList(arg) == IF Truthy(arg) THEN arg ELSE PyList(<<>>)

(* update_sidebar_content: the dataset behind the map, table and float list *)
update_sidebar_content(sidebar_context, region_filter, lat_range, lon_range, status_filter, type_filter, depth_range, day) ==
    build_filtered_dataset(
        [regions |-> SelectedRegions(sidebar_context, region_filter),
         lat_range |-> lat_range, lon_range |-> lon_range, depth_range |-> depth_range,
         date_range |-> DateWindow(sidebar_context),
         statuses |-> OrEmptyList(status_filter),
         float_types |-> OrEmptyList(type_filter)], day)

BASE_EXPORT_COLUMNS ==
    <<"float_id", "region", "latitude", "longitude", "timestamp", "float_status",
      "float_type", "depth", "cycle_number", "battery_level", "last_profile">>

(* the loop without its test "column not in export_columns" *)
DedupeKeepsAll(s) == s

RECURSIVE Dedupe(_)
(* keep the first occurrence of every element *)
Dedupe(s) ==
    IF s = <<>> THEN <<>>
    ELSE LET init == Dedupe(SubSeq(s, 1, Len(s) - 1))
         IN  IF InList(s[Len(s)], init) THEN init ELSE Append(init, s[Len(s)])

(* the rename_map of generate_dummy_export_df *)
ExportName(column) ==
    CASE column = "latitude" -> "Latitude"
      [] column = "longitude" -> "Longitude"
      [] column = "timestamp" -> "Date"
      [] column = "depth" -> "Depth_m"
      [] column = "temperature" -> "Temp_C"
      [] column = "salinity" -> "Salinity_PSU"
      [] OTHER -> column

(* dataset[export_columns]: the listed columns in the listed order.  Pandas *)
(* raises KeyError when a listed name is not a column of the frame; that   *)
(* outcome is the frame without any column.                                *)
SelectColumns(frame_columns, wanted) ==
    IF \A i \in 1..Len(wanted) : InList(wanted[i], frame_columns) THEN wanted ELSE <<>>

(* generate_dummy_export_df: the exported column names and the rows *)
generate_dummy_export_df(a, parameters, day) ==
    LET rows == build_filtered_dataset(a, day)
        requested == IF Truthy(parameters)
                     THEN Dedupe([i \in 1..Len(parameters.val) |->
                              LET hit == SelectSeq(PARAMETER_COLUMN_MAP,
                                             LAMBDA e : e.parameter = parameters.val[i])
                              IN  IF hit = <<>> THEN "" ELSE Head(hit).column])
                     ELSE <<>>
        named == SelectSeq(requested, LAMBDA c : c # "")
        parameter_columns ==
            IF named = <<>>
            THEN [i \in 1..Len(PARAMETER_COLUMN_MAP) |-> PARAMETER_COLUMN_MAP[i].column]
            ELSE named
        export_columns == Dedupe(BASE_EXPORT_COLUMNS \o parameter_columns)
        export == IF rows # <<>> THEN SelectColumns(CATALOG_COLUMNS, export_columns)
                  ELSE export_columns
    IN  [columns |-> [i \in 1..Len(export) |-> ExportName(export[i])],
         rows |-> rows]

(* export_sidebar_data: None when the button was not clicked, else the     *)
(* exported frame                                                          *)
export_sidebar_data(n_clicks, sidebar_context, region_filter, lat_range, lon_range, status_filter, type_filter, depth_range, day) ==
    IF n_clicks = 0 THEN None
    ELSE LET focus == IF sidebar_context = None THEN None
                      ELSE sidebar_context[1].filters_applied.parameter_focus
             parameter_selection == IF focus = None THEN PyNone ELSE PyList(focus)
         IN  Some(generate_dummy_export_df(
                 [regions |-> SelectedRegions(sidebar_context, region_filter),
                  lat_range |-> lat_range, lon_range |-> lon_range,
                  depth_range |-> depth_range,
                  date_range |-> DateWindow(sidebar_context),
                  statuses |-> status_filter, float_types |-> type_filter],
                 parameter_selection, day))

-----------------------------------------------------------------------------
(* Inputs *)

FirstDay == CHOOSE d \in Days : \A e \in Days : d <= e

NoEvent == [kind |-> "none", index |-> 0, key |-> ""]

IdleResponse ==
    [text |-> <<>>, figures |-> <<>>, app_figures |-> <<>>,
     filtered_data |-> [columns |-> {}, rows |-> <<>>],
     filters_applied |-> [region |-> <<>>, status |-> None, depth |-> None,
                          float_type |-> None, parameter_focus |-> None,
                          analysis_type |-> None],
     map_needed |-> FALSE]

NoArgs ==
    [regions |-> PyNone, lat_range |-> PyNone, lon_range |-> PyNone,
     depth_range |-> PyNone, date_range |-> PyNone, statuses |-> PyNone,
     float_types |-> PyNone]

IdleDataset == [columns |-> <<>>, rows |-> <<>>, made |-> FALSE]

StoreIdle ==
    /\ store = DEFAULT_CHAT_STORE
    /\ chat_input = None
    /\ last_event = NoEvent
    /\ prev_store = DEFAULT_CHAT_STORE
    /\ prev_input = None

FilterIdle ==
    /\ fargs = NoArgs
    /\ fop = "idle"
    /\ dataset = IdleDataset

SeedIdle ==
    /\ rng_label = <<>>
    /\ rng_seed = None

CatalogIdle ==
    /\ np_random = 0
    /\ catalog_log = <<>>

SnapshotIdle ==
    /\ snapshot_args = None
    /\ snapshot = None

ExportIdle == export_parameters = PyNone

EngineIdle ==
    /\ engine_provider = None
    /\ openai_api_key = None
    /\ engine = None

EchoIdle ==
    /\ chat_history = <<>>
    /\ fragments = None

RenderIdle ==
    /\ chat_children = <<>>
    /\ render_meta = None
    /\ render_pending = FALSE

PageIdle ==
    /\ page_messages = <<>>
    /\ page_pc = "idle"
    /\ page_engine = None
    /\ display_buffer = <<>>
    /\ page_received = 0
    /\ openai_service = None

LockIdle ==
    /\ history_file = None
    /\ file_lock = None
    /\ managers = <<>>

TrimIdle ==
    /\ st_chat_history = <<>>
    /\ turn_clock = 0

CacheIdle ==
    /\ chat_records = <<>>
    /\ fetch_cache = <<>>
    /\ db_calls = <<>>
    /\ db_clock = 0

LateIdle ==
    /\ RenderIdle
    /\ PageIdle
    /\ LockIdle
    /\ TrimIdle
    /\ CacheIdle

EarlyIdle ==
    /\ SeedIdle
    /\ CatalogIdle
    /\ SnapshotIdle
    /\ ExportIdle
    /\ EngineIdle
    /\ EchoIdle

AuxIdle ==
    /\ EarlyIdle
    /\ LateIdle

ClassifierIdle ==
    /\ query = <<>>
    /\ base_frame = None
    /\ qop = "idle"
    /\ response = IdleResponse

QueryIdle ==
    /\ ClassifierIdle
    /\ AuxIdle

-----------------------------------------------------------------------------
(* Specification of the chat store: events handled by process_chat_events *)

Init ==
    /\ StoreIdle
    /\ today = FirstDay
    /\ FilterIdle
    /\ QueryIdle

(* the two outputs of the callback go to the chat store and the chat input *)
Returned(out) ==
    /\ out.store.conversation_counter <= MaxConversations
    /\ out.store.message_counter <= MaxMessages
    /\ store' = out.store
    /\ chat_input' = Some(out.value)

(* one call of process_chat_events *)
Fire(triggered_id, current_value) ==
    /\ Returned(process_chat_events(triggered_id, current_value, store, today))
    /\ last_event' = triggered_id
    /\ prev_store' = store
    /\ prev_input' = current_value
    /\ UNCHANGED <<filterVars, queryVars, auxVars>>

(* what the chat input may hold when an event fires: what the last call    *)
(* left there, or a text typed since                                       *)
CurrentValues == {chat_input} \cup {Some(t) : t \in InputTexts}

NewChat ==
    \E v \in CurrentValues :
        Fire([kind |-> "new-chat-btn", index |-> 0, key |-> ""], v)

SelectHistory ==
    \E id \in 1..MaxConversations, v \in CurrentValues :
        Fire([kind |-> "history-entry", index |-> id, key |-> ""], v)

SendButton ==
    \E v \in CurrentValues :
        Fire([kind |-> "send-button", index |-> 0, key |-> ""], v)

SubmitInput ==
    \E v \in CurrentValues :
        Fire([kind |-> "chat-input", index |-> 0, key |-> ""], v)

QuickBubble ==
    \E k \in BubbleKeys, v \in CurrentValues :
        Fire([kind |-> "quick-bubble", index |-> 0, key |-> k], v)

OtherTrigger ==
    \E v \in CurrentValues :
        Fire([kind |-> "other", index |-> 0, key |-> ""], v)

Next ==
    \/ NewChat
    \/ SelectHistory
    \/ SendButton
    \/ SubmitInput
    \/ QuickBubble
    \/ OtherTrigger

Spec == Init /\ [][Next]_vars

-----------------------------------------------------------------------------
(* Specification of the filter engine: one call of build_filtered_dataset, *)
(* update_sidebar_content or export_sidebar_data on drawn arguments        *)

RegionArgs ==
    {PyNone, PyList(<<>>), PyList(<<"arabian_sea">>), PyList(<<"pacific_basin">>),
     PyList(<<"indian_ocean", "arabian_sea">>), PyList(<<"atlantis">>)}
LatArgs == {PyNone, PyList(<<14, 21>>), PyList(<<21, 14>>)}
LonArgs == {PyNone, PyList(<<65, 69>>), PyList(<<69, 65>>)}
DepthArgs == {PyNone, PyList(<<1500>>), PyList(<<1500, 4500>>), PyList(<<4500, 1500>>)}
DateArgs ==
    {PyNone, PyList(<<Some(5), None>>), PyList(<<None, Some(21)>>),
     PyList(<<Some(5), Some(21)>>), PyList(<<Some(21), Some(5)>>)}
StatusArgs == {PyList(<<>>), PyList(<<"Active">>), PyList(<<"Active", "Inactive">>)}
TypeArgs == {PyNone, PyList(<<"Core">>)}

ArgSets ==
    [regions : RegionArgs, lat_range : LatArgs, lon_range : LonArgs,
     depth_range : DepthArgs, date_range : DateArgs, statuses : StatusArgs,
     float_types : TypeArgs]

InitFilter ==
    /\ StoreIdle
    /\ QueryIdle
    /\ today \in Days
    /\ fargs \in ArgSets
    /\ fop = "idle"
    /\ dataset = IdleDataset

(* the sidebar context a bot message of process_chat_events leaves, with   *)
(* a date_range and a parameter_focus among its filters_applied            *)
SidebarContext(date_range, parameter_focus) ==
    Some([region |-> Some("indian_ocean"),
          filters_applied |-> [date_range |-> date_range,
                               parameter_focus |-> parameter_focus]])

CallBuildFilteredDataset ==
    /\ fop = "idle"
    /\ fop' = "build_filtered_dataset"
    /\ dataset' = [columns |-> FRAME_COLUMN_LIST,
                   rows |-> build_filtered_dataset(fargs, today),
                   made |-> TRUE]
    /\ UNCHANGED <<fargs, today, storeVars, queryVars, auxVars>>

CallUpdateSidebarContent ==
    /\ fop = "idle"
    /\ fop' = "update_sidebar_content"
    /\ dataset' = [columns |-> FRAME_COLUMN_LIST,
                   rows |-> update_sidebar_content(
                                SidebarContext(fargs.date_range, None),
                                fargs.regions, fargs.lat_range, fargs.lon_range,
                                fargs.statuses, fargs.float_types, fargs.depth_range, today),
                   made |-> TRUE]
    /\ UNCHANGED <<fargs, today, storeVars, queryVars, auxVars>>

CallExportSidebarData ==
    /\ fop = "idle"
    /\ \E n_clicks \in 0..1, focus \in {None, Some("Temperature")} :
          LET out == export_sidebar_data(
                         n_clicks, SidebarContext(fargs.date_range, focus),
                         fargs.regions, fargs.lat_range, fargs.lon_range,
                         fargs.statuses, fargs.float_types, fargs.depth_range, today)
          IN  dataset' = IF out = None THEN IdleDataset
                         ELSE [columns |-> out[1].columns, rows |-> out[1].rows, made |-> TRUE]
    /\ fop' = "export_sidebar_data"
    /\ UNCHANGED <<fargs, today, storeVars, queryVars, auxVars>>

NextFilter ==
    \/ CallBuildFilteredDataset
    \/ CallUpdateSidebarContent
    \/ CallExportSidebarData

SpecFilter == InitFilter /\ [][NextFilter]_vars

-----------------------------------------------------------------------------
(* Specification of the chat classifier: one call on a drawn query *)

MaxWords == 3   \* words in a drawn query

Vocabulary ==
    {<<"s","h","o","w">>,
     <<"t","e","m","p","e","r","a","t","u","r","e">>,
     <<"c","o","m","p","a","r","e">>,
     <<"p","r","o","f","i","l","e">>,
     <<"t","r","e","n","d">>,
     <<"I","n","a","c","t","i","v","e">>,
     <<"a","c","t","i","v","e">>,
     <<"d","e","a","d">>,
     <<"n","o","t"," ","w","o","r","k","i","n","g">>,
     <<"w","o","r","k","i","n","g">>,
     <<"o","p","e","r","a","t","i","o","n","a","l">>}

STR_precedence_query ==
    <<"s","h","o","w"," ","m","e"," ","t","e","m","p","e","r","a","t","u","r","e"," ","a","n","d"," ","c","o","m","p","a","r","e"," ","r","e","g","i","o","n","s">>

RECURSIVE JoinWords(_)
(* " ".join(words) *)
JoinWords(words) ==
    IF Len(words) = 0 THEN <<>>
    ELSE IF Len(words) = 1 THEN words[1]
    ELSE words[1] \o <<" ">> \o JoinWords(Tail(words))

Queries ==
    {JoinWords(ws) : ws \in UNION {[1..n -> Vocabulary] : n \in 1..MaxWords}}
    \cup {STR_precedence_query}

InitQuery ==
    /\ StoreIdle
    /\ FilterIdle
    /\ today = FirstDay
    /\ query \in Queries
    /\ base_frame = None
    /\ qop = "idle"
    /\ response = IdleResponse
    /\ AuxIdle

(* the chat pipeline of process_chat_events on the query *)
CallGenerateResponse ==
    /\ qop = "idle"
    /\ qop' = "generate_response"
    /\ response' = [app_figures |-> <<>>] @@ generate_response(query, ChatBaseData[today])
    /\ UNCHANGED <<query, base_frame, today, storeVars, filterVars, auxVars>>

(* what generate_chat_driven_plots of app.py makes of the query and of     *)
(* what apply_chat_filters returned for it                                 *)
PlotsFor(applied) ==
    [text |-> <<>>, figures |-> <<>>, map_needed |-> FALSE,
     filtered_data |-> applied.filtered_data,
     filters_applied |-> applied.filters_applied,
     app_figures |-> generate_chat_driven_plots(query, applied.filtered_data,
                                                applied.filters_applied)]

(* generate_chat_driven_plots of app.py on what apply_chat_filters made of *)
(* the query                                                               *)
CallGenerateChatDrivenPlots ==
    /\ qop = "idle"
    /\ qop' = "generate_chat_driven_plots"
    /\ response' = PlotsFor(apply_chat_filters(query, ChatBaseData[today]))
    /\ UNCHANGED <<query, base_frame, today, storeVars, filterVars, auxVars>>

NextQuery ==
    \/ CallGenerateResponse
    \/ CallGenerateChatDrivenPlots

SpecQuery == InitQuery /\ [][NextQuery]_vars

-----------------------------------------------------------------------------
(* Specification of the annotations of the chat classifier: one call on a  *)
(* query drawn from the parameter-focus and analysis words                 *)

AnalysisVocabulary ==
    {<<"t","e","m","p","e","r","a","t","u","r","e">>,
     <<"s","a","l","i","n","i","t","y">>,
     <<"p","s","u">>,
     <<"d","e","e","p">>,
     <<"p","r","o","f","i","l","e">>,
     <<"t","r","e","n","d">>,
     <<"s","e","r","i","e","s">>,
     <<"c","o","m","p","a","r","e">>,
     <<"b","e","t","w","e","e","n">>,
     <<"v","s">>,
     <<"c","o","r","r","e","l","a","t","i","o","n">>}

AnalysisQueries ==
    {JoinWords(ws) : ws \in UNION {[1..n -> AnalysisVocabulary] : n \in 1..MaxWords}}

InitAnalysis ==
    /\ StoreIdle
    /\ FilterIdle
    /\ today = FirstDay
    /\ query \in AnalysisQueries
    /\ base_frame = None
    /\ qop = "idle"
    /\ response = IdleResponse
    /\ AuxIdle

SpecAnalysis == InitAnalysis /\ [][NextQuery]_vars

-----------------------------------------------------------------------------
(* Specification of the depth adjectives: one call of apply_chat_filters   *)
(* on a drawn query and a drawn frame                                      *)

(* depths on both sides of and on the four thresholds *)
DepthLevels == <<250, 500, 750, 1000, 1250, 1500, 2000>>

(* row i of a frame that has every column: each depth with each max_depth *)
FullRow(i) ==
    [float_id |-> i,
     region |-> "Indian Ocean",
     depth |-> DepthLevels[((i - 1) \div Len(DepthLevels)) + 1],
     max_depth |-> DepthLevels[((i - 1) % Len(DepthLevels)) + 1]]

(* the frame with these columns only *)
FrameWith(columns) ==
    [columns |-> columns,
     rows |-> [i \in 1..(Len(DepthLevels) * Len(DepthLevels)) |->
                  [c \in columns |-> FullRow(i)[c]]]]

(* frames without a depth column, with 'depth', with 'max_depth' (as       *)
(* generate_float_locations makes them), with both, and the catalog        *)
BaseFrames ==
    {FrameWith({"float_id", "region"}),
     FrameWith({"float_id", "region", "depth"}),
     FrameWith({"float_id", "region", "max_depth"}),
     FrameWith({"float_id", "region", "depth", "max_depth"}),
     ChatBaseData[FirstDay]}

DepthVocabulary ==
    {<<"s","h","o","w">>,
     <<"s","h","a","l","l","o","w">>,
     <<"S","u","r","f","a","c","e">>,
     <<"t","o","p">>,
     <<"D","e","e","p">>,
     <<"b","o","t","t","o","m">>,
     <<"a","b","y","s","s","a","l">>}

DepthQueries ==
    {JoinWords(ws) : ws \in UNION {[1..n -> DepthVocabulary] : n \in 1..MaxWords}}

InitDepth ==
    /\ StoreIdle
    /\ FilterIdle
    /\ today = FirstDay
    /\ query \in DepthQueries
    /\ base_frame \in {Some(f) : f \in BaseFrames}
    /\ qop = "idle"
    /\ response = IdleResponse
    /\ AuxIdle

(* the two values apply_chat_filters returned, no text and no figure made *)
Applied(applied) ==
    [text |-> <<>>, figures |-> <<>>, app_figures |-> <<>>, map_needed |-> FALSE,
     filtered_data |-> applied.filtered_data,
     filters_applied |-> applied.filters_applied]

CallApplyChatFilters ==
    /\ qop = "idle"
    /\ base_frame # None
    /\ qop' = "apply_chat_filters"
    /\ response' = Applied(apply_chat_filters(query, base_frame[1]))
    /\ UNCHANGED <<query, base_frame, today, storeVars, filterVars, auxVars>>

NextDepth == CallApplyChatFilters

SpecDepth == InitDepth /\ [][NextDepth]_vars

-----------------------------------------------------------------------------
(* Specification of the region filter of the chat classifier: the chat     *)
(* pipeline on a query drawn from region names and other words             *)

RegionVocabulary ==
    {<<"s","h","o","w">>,
     <<"a","r","a","b","i","a","n"," ","s","e","a">>,
     <<"B","a","y"," ","o","f"," ","B","e","n","g","a","l">>,
     <<"i","n","d","i","a","n"," ","o","c","e","a","n">>,
     <<"p","a","c","i","f","i","c"," ","o","c","e","a","n">>,
     <<"a","r","a","b","i","a","n","_","s","e","a">>,
     <<"d","e","e","p">>}

RegionQueries ==
    {JoinWords(ws) : ws \in UNION {[1..n -> RegionVocabulary] : n \in 1..MaxWords}}

InitRegion ==
    /\ StoreIdle
    /\ FilterIdle
    /\ today = FirstDay
    /\ query \in RegionQueries
    /\ base_frame = None
    /\ qop = "idle"
    /\ response = IdleResponse
    /\ AuxIdle

SpecRegion == InitRegion /\ [][NextQuery]_vars

-----------------------------------------------------------------------------
(* Specification of the chat page: every event handled by                  *)
(* process_chat_events changes "chat-store", which fires                   *)
(* render_chat_from_store; that callback also runs once when the page loads *)

InitRender ==
    /\ StoreIdle
    /\ today = FirstDay
    /\ FilterIdle
    /\ ClassifierIdle
    /\ EarlyIdle
    /\ PageIdle /\ LockIdle /\ TrimIdle /\ CacheIdle
    /\ chat_children = <<>>
    /\ render_meta = Some([last_rendered_id |-> 0, active_conversation_id |-> None])
    /\ render_pending = TRUE

(* the triggers of process_chat_events *)
Triggers ==
    {[kind |-> k, index |-> 0, key |-> ""] :
        k \in {"new-chat-btn", "send-button", "chat-input", "other"}}
    \cup {[kind |-> "history-entry", index |-> id, key |-> ""] : id \in 1..MaxConversations}
    \cup {[kind |-> "quick-bubble", index |-> 0, key |-> k] : k \in BubbleKeys}

(* one call of process_chat_events on the page *)
ChatStoreEvent ==
    /\ ~render_pending
    /\ \E triggered_id \in Triggers, v \in CurrentValues :
          /\ Returned(process_chat_events(triggered_id, v, store, today))
          /\ last_event' = triggered_id
          /\ prev_store' = store
          /\ prev_input' = v
    /\ render_pending' = TRUE
    /\ UNCHANGED <<chat_children, render_meta, filterVars, queryVars, earlyVars,
                   pageVars, lockVars, trimVars, cacheVars>>

(* one call of render_chat_from_store and the update of the page *)
RenderChatFromStore ==
    /\ render_pending
    /\ LET out == render_chat_from_store(store, render_meta)
       IN  /\ chat_children' = UpdatedChildren(chat_children, out.children)
           /\ render_meta' = Some(out.meta)
    /\ render_pending' = FALSE
    /\ UNCHANGED <<storeVars, filterVars, queryVars, earlyVars,
                   pageVars, lockVars, trimVars, cacheVars>>

NextRender == ChatStoreEvent \/ RenderChatFromStore

SpecRender == InitRender /\ [][NextRender]_vars

-----------------------------------------------------------------------------
(* Specification of seeded_rng: one call on a drawn label *)

MaxLabelLen == 3   \* characters of a drawn short label

(* characters of the drawn labels: NUL, a letter, a hyphen and the largest *)
(* code point                                                              *)
LabelAlphabet == {"U+0000", "a", "-", "U+10FFFF"}

ShortLabels == UNION {[1..n -> LabelAlphabet] : n \in 0..MaxLabelLen}

(* 2**32 - 1 = 3855 * 1114111 + 69390: labels of 3855 or 3856 characters   *)
(* of the largest code point and one more character have a code point sum  *)
(* next to the modulus                                                     *)
LongLabels ==
    {[i \in 1..n |-> "U+10FFFF"] \o <<c>> :
        n \in {3855, 3856}, c \in {"U+0000", "U+10F0D", "U+10F0E", "U+10F0F"}}

(* the labels generate_dummy_map_data makes of the region keys *)
MapLabels == {RegionChars(region) \o <<"-","m","a","p">> : region \in RegionKeysUsed}

Labels == ShortLabels \cup LongLabels \cup MapLabels

InitSeed ==
    /\ StoreIdle
    /\ FilterIdle
    /\ today = FirstDay
    /\ ClassifierIdle
    /\ CatalogIdle
    /\ SnapshotIdle /\ ExportIdle /\ EngineIdle /\ EchoIdle
    /\ LateIdle
    /\ rng_label \in Labels
    /\ rng_seed = None

CallSeededRng ==
    /\ rng_seed = None
    /\ rng_seed' = Some(seeded_rng(rng_label))
    /\ UNCHANGED <<rng_label, today, storeVars, filterVars, queryVars, catalogVars,
                   snapshotVars, exportVars, engineVars, echoVars, lateVars>>

NextSeed == CallSeededRng

SpecSeed == InitSeed /\ [][NextSeed]_vars

-----------------------------------------------------------------------------
(* Specification of the catalog generator: calls of generate_dummy_map_data *)
(* on different days, between calls that draw from numpy's global generator *)

MaxCalls == 3   \* calls of generate_dummy_map_data in a run

InitCatalog ==
    /\ StoreIdle
    /\ FilterIdle
    /\ today = FirstDay
    /\ ClassifierIdle
    /\ SeedIdle
    /\ CatalogIdle
    /\ SnapshotIdle /\ ExportIdle /\ EngineIdle /\ EchoIdle
    /\ LateIdle

(* one call of generate_dummy_map_data(region); the log keeps the day and   *)
(* the state of the global generator at the call                           *)
CallGenerateDummyMapData ==
    /\ Len(catalog_log) < MaxCalls
    /\ \E region \in RegionKeysUsed :
          catalog_log' = Append(catalog_log,
                                [region |-> region, day |-> today, drawn |-> np_random,
                                 frame |-> CatalogFrame(region, today, np_random)])
    /\ UNCHANGED <<np_random, today, storeVars, filterVars, queryVars, seedVars,
                   snapshotVars, exportVars, engineVars, echoVars, lateVars>>

(* generate_correlation_plot on an empty frame: np.random.uniform and      *)
(* np.random.normal each draw an array from the global generator           *)
CallGenerateCorrelationPlot ==
    /\ np_random < 2 * MaxCalls
    /\ np_random' = np_random + 2
    /\ UNCHANGED <<catalog_log, today, storeVars, filterVars, queryVars, seedVars,
                   snapshotVars, exportVars, engineVars, echoVars, lateVars>>

(* midnight passes: date.today() advances *)
NextDay ==
    /\ today + 1 \in Days
    /\ today' = today + 1
    /\ UNCHANGED <<catalogVars, storeVars, fargs, fop, dataset, queryVars, seedVars,
                   snapshotVars, exportVars, engineVars, echoVars, lateVars>>

NextCatalog ==
    \/ CallGenerateDummyMapData
    \/ CallGenerateCorrelationPlot
    \/ NextDay

SpecCatalog == InitCatalog /\ [][NextCatalog]_vars

-----------------------------------------------------------------------------
(* Specification of compute_parameter_snapshot: one call on drawn arguments *)

MaxSnapshotRows == 2   \* rows of a drawn frame

(* a cell of a drawn frame: null or a value *)
SnapshotCells == {None, Some(5), Some(8)}

SnapshotColumnSets ==
    {{"float_id", "temperature"},
     {"float_id", "depth", "salinity"},
     {"temperature", "depth"}}

(* the frame with these columns whose row i carries the id i and the i-th  *)
(* cell in every other column                                              *)
SnapshotFrame(columns, cells) ==
    [columns |-> columns,
     rows |-> [i \in 1..Len(cells) |->
                  [c \in columns |-> IF c = "float_id" THEN Some(i) ELSE cells[i]]]]

SnapshotFrames ==
    {SnapshotFrame(columns, cells) :
        columns \in SnapshotColumnSets,
        cells \in UNION {[1..n -> SnapshotCells] : n \in 0..MaxSnapshotRows}}

SnapshotParameters ==
    {None, Some(""), Some("Temperature"), Some("Depth"), Some("Location"), Some("Oxygen")}

SnapshotMethods == {None, Some("Mean"), Some("Median"), Some("Min"), Some("Max"), Some("Mode")}

InitSnapshot ==
    /\ StoreIdle
    /\ FilterIdle
    /\ today = FirstDay
    /\ ClassifierIdle
    /\ SeedIdle /\ CatalogIdle /\ ExportIdle /\ EngineIdle /\ EchoIdle
    /\ LateIdle
    /\ snapshot_args \in {Some([dataset |-> d, parameter |-> p, method |-> m]) :
                              d \in SnapshotFrames, p \in SnapshotParameters,
                              m \in SnapshotMethods}
    /\ snapshot = None

CallComputeParameterSnapshot ==
    /\ snapshot = None
    /\ snapshot_args # None
    /\ snapshot' = Some(compute_parameter_snapshot(snapshot_args[1].dataset,
                                                    snapshot_args[1].parameter,
                                                    snapshot_args[1].method))
    /\ UNCHANGED <<snapshot_args, today, storeVars, filterVars, queryVars, seedVars,
                   catalogVars, exportVars, engineVars, echoVars, lateVars>>

NextSnapshot == CallComputeParameterSnapshot

SpecSnapshot == InitSnapshot /\ [][NextSnapshot]_vars

-----------------------------------------------------------------------------
(* Specification of generate_dummy_export_df: one call on drawn arguments *)

(* filter arguments that leave rows and filter arguments that leave none *)
ExportArgSets ==
    [regions : {PyNone, PyList(<<"arabian_sea">>), PyList(<<"atlantis">>)},
     lat_range : {PyNone},
     lon_range : {PyNone},
     depth_range : {PyNone, PyList(<<1500, 4500>>), PyList(<<9000, 9500>>)},
     date_range : {PyNone},
     statuses : {PyNone, PyList(<<"Active">>), PyList(<<"Lost">>)},
     float_types : {PyNone}]

ExportParameters ==
    {PyNone, PyList(<<>>), PyList(<<"Oxygen">>), PyList(<<"Oxygen", "temperature">>),
     PyList(<<"Temperature">>), PyList(<<"Salinity", "Oxygen">>),
     PyList(<<"Depth", "Temperature", "Depth">>)}

InitExport ==
    /\ StoreIdle
    /\ ClassifierIdle
    /\ SeedIdle /\ CatalogIdle /\ SnapshotIdle /\ EngineIdle /\ EchoIdle
    /\ LateIdle
    /\ today \in Days
    /\ fargs \in ExportArgSets
    /\ export_parameters \in ExportParameters
    /\ fop = "idle"
    /\ dataset = IdleDataset

CallGenerateDummyExportDf ==
    /\ fop = "idle"
    /\ fop' = "generate_dummy_export_df"
    /\ LET out == generate_dummy_export_df(fargs, export_parameters, today)
       IN  dataset' = [columns |-> out.columns, rows |-> out.rows, made |-> TRUE]
    /\ UNCHANGED <<fargs, today, storeVars, queryVars, seedVars, catalogVars,
                   snapshotVars, exportVars, engineVars, echoVars, lateVars>>

NextExport == CallGenerateDummyExportDf

SpecExport == InitExport /\ [][NextExport]_vars

-----------------------------------------------------------------------------
(* chat_engine.py: the engines of the chatbot page *)

ECHO_ENGINE == [class |-> "EchoEngine"]

(* OpenAIEngine(model), the openai package being installed *)
OpenAIEngine(model) == [class |-> "OpenAIEngine", model |-> model]

(* (provider or "openai").lower(): provider is None or a string *)
NormalisedProvider(provider) ==
    IF provider = None \/ provider[1] = <<>> THEN <<"o","p","e","n","a","i">>
    ELSE Lower(provider[1])

(* build_engine that never looks at the key *)
build_engine_key_unchecked(provider, api_key) ==
    IF NormalisedProvider(provider) = <<"o","p","e","n","a","i">>
    THEN OpenAIEngine("gpt-4o-mini")
    ELSE ECHO_ENGINE

(* build_engine(provider) when os.getenv("OPENAI_API_KEY") is api_key: None *)
(* when the variable is unset, else its text                               *)
build_engine(provider, api_key) ==
    IF NormalisedProvider(provider) = <<"o","p","e","n","a","i">>
    THEN IF api_key = None \/ api_key[1] = <<>> THEN ECHO_ENGINE
         ELSE OpenAIEngine("gpt-4o-mini")
    ELSE ECHO_ENGINE

RECURSIVE SplitOn(_, _)
(* str.split(sep) for a separator of one character: the pieces between the *)
(* separators, empty pieces included                                       *)
SplitOn(text, sep) ==
    IF ~InList(sep, text) THEN <<text>>
    ELSE LET first == CHOOSE i \in 1..Len(text) :
                          text[i] = sep /\ \A j \in 1..(i - 1) : text[j] # sep
         IN  <<SubSeq(text, 1, first - 1)>> \o SplitOn(SubSeq(text, first + 1, Len(text)), sep)

(* next((m.content for m in reversed(messages) if m.role == "user"), "") *)
LastUserContent(messages) ==
    LET users == SelectSeq(messages, LAMBDA m : m.role = "user")
    IN  IF users = <<>> THEN <<>> ELSE users[Len(users)].content

(* f"Echo: {user_text}" *)
EchoReply(messages) == <<"E","c","h","o",":"," ">> \o LastUserContent(messages)

(* the fragment EchoEngine.stream_reply yields for a token of the reply *)
EchoFragment(token, reply) ==
    (IF token # SplitOn(reply, " ")[1] THEN <<" ">> ELSE <<>>) \o token

(* the fragments EchoEngine.stream_reply(messages) yields, in order *)
stream_reply(messages) ==
    LET reply == EchoReply(messages)
        tokens == SplitOn(reply, " ")
    IN  [i \in 1..Len(tokens) |-> EchoFragment(tokens[i], reply)]

(* sanitize_user_input(text): control characters become spaces and the    *)
(* result is stripped                                                      *)
sanitize_user_input(text) ==
    Strip([i \in 1..Len(text) |->
              IF text[i] \in {"U+0000", "U+0007", "U+000A", "U+007F"} THEN " " ELSE text[i]])

(* the row save_chat_message adds to the table chat_records *)
ChatRecord(id, session_id, user_message, bot_response, timestamp) ==
    [id |-> id, session_id |-> session_id, user_message |-> user_message,
     bot_response |-> bot_response, timestamp |-> timestamp]

(* the cache of st.cache_data left as it is: fetch_chat_history.clear()    *)
(* mutated into a no-op                                                    *)
CacheKept(cache) == cache

(* fetch_chat_history.clear(): every entry of the cache of the function    *)
(* is dropped, whatever session it is about                                *)
ClearedCache(cache) == <<>>

(* the arguments of a fetch_chat_history call, which are the cache key     *)
FetchKey(session_id, keyword, limit) ==
    [session_id |-> session_id, keyword |-> keyword, limit |-> limit]

(* where(ChatRecord.session_id == session_id) *)
SessionRows(records, session_id) == SelectSeq(records, LAMBDA r : r.session_id = session_id)

(* order_by(ChatRecord.timestamp.desc()): every order of the rows with     *)
(* non-increasing time stamps, rows of equal time stamp in any order       *)
NewestFirst(rows) ==
    LET n == Len(rows)
        orders == {f \in [1..n -> 1..n] :
                      /\ \A i, j \in 1..n : f[i] = f[j] => i = j
                      /\ \A i \in 1..(n - 1) :
                            rows[f[i]].timestamp >= rows[f[i + 1]].timestamp}
    IN {[i \in 1..n |-> rows[f[i]]] : f \in orders}

(* the keyword mask of fetch_chat_history: applied for a non-empty keyword *)
KeywordMask(rows, keyword) ==
    IF keyword = None \/ keyword[1] = <<>>
    THEN rows
    ELSE SelectSeq(rows, LAMBDA r : \/ Contains(Lower(r.user_message), Lower(keyword[1]))
                                    \/ Contains(Lower(r.bot_response), Lower(keyword[1])))

(* the body of fetch_chat_history: the frames the query can give for these *)
(* arguments on this table                                                 *)
fetch_chat_history(records, key) ==
    {KeywordMask(Take(ordered, key.limit), key.keyword) :
        ordered \in NewestFirst(SessionRows(records, key.session_id))}

(* the table after save_chat_message committed its row; the time stamp is  *)
(* ts or datetime.utcnow(), the id the next of the sequence                *)
SavedRecords(records, clock, session_id, user_message, bot_response, ts) ==
    Append(records,
           ChatRecord(clock + 1, session_id, user_message, bot_response,
                      IF ts = None THEN clock + 1 ELSE ts[1]))

(* the table after clear_chat_history committed its delete                 *)
ClearedRecords(records, session_id) ==
    SelectSeq(records, LAMBDA r : r.session_id # session_id)

(* st.cache_data: the entry under a key, None when the key is not cached   *)
CacheLookup(cache, key) == IF key \in DOMAIN cache THEN Some(cache[key]) ELSE None

(* st.cache_data: the value computed on a miss is written under its key    *)
CacheWrite(cache, key, rows) ==
    [k \in (DOMAIN cache) \cup {key} |-> IF k = key THEN rows ELSE cache[k]]

(* the completion service as OpenAIEngine.stream_reply meets it: the       *)
(* requests made so far, the chunks of the reply to the last request, how  *)
(* many of them the service has produced, and where the request stands     *)
ServiceState(requests, reply, produced, status) ==
    [requests |-> requests, reply |-> reply, produced |-> produced, status |-> status]

-----------------------------------------------------------------------------
(* Specification of build_engine: one call on a drawn provider and key *)

ProviderArgs ==
    {None, Some(<<>>), Some(<<"o","p","e","n","a","i">>), Some(<<"O","p","e","n","A","I">>),
     Some(<<"O","P","E","N","A","I">>), Some(<<"o","p","e","n","a","i"," ">>),
     Some(<<"o","p","e","n">>), Some(<<"o","l","l","a","m","a">>),
     Some(<<"g","e","m","i","n","i">>), Some(<<"e","c","h","o">>), Some(<<" ">>)}

(* values of the environment variable OPENAI_API_KEY: unset, empty, set *)
ApiKeys == {None, Some(<<>>), Some(<<" ">>), Some(<<"0">>), Some(<<"s","k">>), Some(<<"s","k","-","1">>)}

InitEngine ==
    /\ StoreIdle
    /\ FilterIdle
    /\ today = FirstDay
    /\ ClassifierIdle
    /\ SeedIdle /\ CatalogIdle /\ SnapshotIdle /\ ExportIdle /\ EchoIdle
    /\ LateIdle
    /\ engine_provider \in {Some(provider) : provider \in ProviderArgs}
    /\ openai_api_key \in ApiKeys
    /\ engine = None

CallBuildEngine ==
    /\ engine = None
    /\ engine_provider # None
    /\ engine' = Some(build_engine(engine_provider[1], openai_api_key))
    /\ UNCHANGED <<engine_provider, openai_api_key, today, storeVars, filterVars, queryVars,
                   seedVars, catalogVars, snapshotVars, exportVars, echoVars, lateVars>>

NextEngine == CallBuildEngine

SpecEngine == InitEngine /\ [][NextEngine]_vars

-----------------------------------------------------------------------------
(* Specification of EchoEngine.stream_reply: the generator is created on a *)
(* drawn history and resumed until it is exhausted                         *)

MaxHistory == 2   \* messages of a drawn history

EchoContents ==
    {<<>>, <<"h","i">>, <<"a"," ","b">>, <<"a"," "," ","b">>, <<" ","h","i"," ">>,
     <<"E","c","h","o",":"," ","h","i">>, <<"a"," ","E","c","h","o",":">>,
     <<"e","c","h","o",":">>}

EchoMessages == [role : {"user", "assistant", "system"}, content : EchoContents]

Histories == UNION {[1..n -> EchoMessages] : n \in 0..MaxHistory}

InitEcho ==
    /\ StoreIdle
    /\ FilterIdle
    /\ today = FirstDay
    /\ ClassifierIdle
    /\ SeedIdle /\ CatalogIdle /\ SnapshotIdle /\ ExportIdle /\ EngineIdle
    /\ LateIdle
    /\ chat_history \in Histories
    /\ fragments = None

(* engine.stream_reply(messages): the generator, not yet resumed *)
StreamReply ==
    /\ fragments = None
    /\ fragments' = Some([yielded |-> <<>>, exhausted |-> FALSE])
    /\ UNCHANGED <<chat_history, today, storeVars, filterVars, queryVars, seedVars,
                   catalogVars, snapshotVars, exportVars, engineVars, lateVars>>

(* one resumption of the generator: the next fragment, or the end *)
NextToken ==
    /\ fragments # None
    /\ ~fragments[1].exhausted
    /\ LET all == stream_reply(chat_history)
           n == Len(fragments[1].yielded)
       IN  fragments' = IF n < Len(all)
                        THEN Some([yielded |-> Append(fragments[1].yielded, all[n + 1]),
                                   exhausted |-> FALSE])
                        ELSE Some([yielded |-> fragments[1].yielded, exhausted |-> TRUE])
    /\ UNCHANGED <<chat_history, today, storeVars, filterVars, queryVars, seedVars,
                   catalogVars, snapshotVars, exportVars, engineVars, lateVars>>

NextEcho == StreamReply \/ NextToken

SpecEcho == InitEcho /\ [][NextEcho]_vars

-----------------------------------------------------------------------------
(* Specification of the chatbot page: handle_chat, the engine it streams    *)
(* from and the completion service behind OpenAIEngine                     *)

MaxTurns == 2   \* prompts submitted in a run

(* the greeting the page starts the message list with (shortened) *)
WELCOME == [role |-> "assistant", content |-> <<"H","i","!">>]

Prompts == {<<"h","i">>, <<"a","U+000A","b"," ">>}

(* replies of the completion service, as the chunks it streams *)
ServiceReplies ==
    {<<>>, <<<<"O","k">>>>, <<<<"H","i">>, <<" ","y","o","u">>>>}

SESSION_ID == "session-1"

InitPage ==
    /\ StoreIdle
    /\ today = FirstDay
    /\ FilterIdle
    /\ ClassifierIdle
    /\ SeedIdle /\ CatalogIdle /\ SnapshotIdle /\ ExportIdle /\ EchoIdle
    /\ RenderIdle /\ LockIdle /\ TrimIdle
    /\ engine_provider \in {Some(Some(<<"o","p","e","n","a","i">>)),
                             Some(Some(<<"o","l","l","a","m","a">>))}
    /\ openai_api_key \in {None, Some(<<"s","k">>)}
    /\ engine = None
    /\ page_messages = <<WELCOME>>
    /\ page_pc = "idle"
    /\ page_engine = None
    /\ display_buffer = <<>>
    /\ page_received = 0
    /\ openai_service = Some(ServiceState(0, <<>>, 0, "idle"))
    /\ chat_records = <<>>
    /\ fetch_cache = <<>>
    /\ db_calls = <<>>
    /\ db_clock = 0

(* what no step of the page touches *)
pageFrame == <<engine_provider, openai_api_key, engine, today, storeVars, filterVars,
               queryVars, seedVars, catalogVars, snapshotVars, exportVars, echoVars,
               renderVars, lockVars, trimVars, db_calls>>

(* handle_chat(prompt) up to the loop: the engine is built, the user       *)
(* message is appended and the placeholder shows the typing dots           *)
HandleChat ==
    /\ page_pc \in {"idle", "raised"}
    /\ Len(SelectSeq(page_messages, LAMBDA m : m.role = "user")) < MaxTurns
    /\ \E user_text \in Prompts :
          page_messages' = Append(page_messages,
                                  [role |-> "user", content |-> sanitize_user_input(user_text)])
    /\ page_engine' = Some(build_engine(engine_provider[1], openai_api_key))
    /\ display_buffer' = <<>>
    /\ page_received' = 0
    /\ page_pc' = "streaming"
    /\ openai_service' = Some([openai_service[1] EXCEPT !.status = "idle", !.produced = 0,
                                                        !.reply = <<>>])
    /\ UNCHANGED <<pageFrame, chat_records, fetch_cache, db_clock>>

(* one resumption of EchoEngine.stream_reply by the loop of handle_chat:   *)
(* the next fragment is appended to the buffer                             *)
EchoToken ==
    /\ page_pc = "streaming"
    /\ page_engine = Some(ECHO_ENGINE)
    /\ page_received < Len(stream_reply(page_messages))
    /\ display_buffer' = display_buffer \o stream_reply(page_messages)[page_received + 1]
    /\ page_received' = page_received + 1
    /\ UNCHANGED <<pageFrame, page_messages, page_pc, page_engine, openai_service,
                   chat_records, fetch_cache, db_clock>>

(* the first resumption of OpenAIEngine.stream_reply: the executor issues  *)
(* client.chat.completions.create(..., stream=True), which the service     *)
(* accepts with some reply to stream or refuses                            *)
RequestCompletion ==
    /\ page_pc = "streaming"
    /\ page_engine # None /\ page_engine[1].class = "OpenAIEngine"
    /\ openai_service[1].status = "idle"
    /\ \/ \E reply \in ServiceReplies :
             openai_service' = Some(ServiceState(openai_service[1].requests + 1, reply, 0,
                                                 "streaming"))
       \/ openai_service' = Some(ServiceState(openai_service[1].requests + 1, <<>>, 0,
                                              "failed"))
    /\ UNCHANGED <<pageFrame, page_messages, page_pc, page_engine, display_buffer,
                   page_received, chat_records, fetch_cache, db_clock>>

(* the service streams its next chunk; list(_do_stream()) in the executor  *)
(* takes it                                                                *)
ServiceChunk ==
    /\ openai_service # None
    /\ openai_service[1].status = "streaming"
    /\ openai_service[1].produced < Len(openai_service[1].reply)
    /\ openai_service' = Some([openai_service[1] EXCEPT !.produced = @ + 1])
    /\ UNCHANGED <<pageFrame, page_messages, page_pc, page_engine, display_buffer,
                   page_received, chat_records, fetch_cache, db_clock>>

(* the service ends the stream after its last chunk: the list is complete  *)
ServiceEnds ==
    /\ openai_service # None
    /\ openai_service[1].status = "streaming"
    /\ openai_service[1].produced = Len(openai_service[1].reply)
    /\ openai_service' = Some([openai_service[1] EXCEPT !.status = "finished"])
    /\ UNCHANGED <<pageFrame, page_messages, page_pc, page_engine, display_buffer,
                   page_received, chat_records, fetch_cache, db_clock>>

(* the connection breaks while the reply is streamed *)
ServiceFails ==
    /\ openai_service # None
    /\ openai_service[1].status = "streaming"
    /\ openai_service' = Some([openai_service[1] EXCEPT !.status = "failed"])
    /\ UNCHANGED <<pageFrame, page_messages, page_pc, page_engine, display_buffer,
                   page_received, chat_records, fetch_cache, db_clock>>

(* run_in_executor has returned the complete list: the generator yields    *)
(* its next element and the loop appends it to the buffer                  *)
CollectedToken ==
    /\ page_pc = "streaming"
    /\ page_engine # None /\ page_engine[1].class = "OpenAIEngine"
    /\ openai_service[1].status = "finished"
    /\ page_received < Len(openai_service[1].reply)
    /\ display_buffer' = display_buffer \o openai_service[1].reply[page_received + 1]
    /\ page_received' = page_received + 1
    /\ UNCHANGED <<pageFrame, page_messages, page_pc, page_engine, openai_service,
                   chat_records, fetch_cache, db_clock>>

(* the error of the request or of the stream comes out of the await in     *)
(* stream_reply, out of the loop and out of handle_chat: nothing catches it *)
StreamRaises ==
    /\ page_pc = "streaming"
    /\ page_engine # None /\ page_engine[1].class = "OpenAIEngine"
    /\ openai_service[1].status = "failed"
    /\ page_pc' = "raised"
    /\ UNCHANGED <<pageFrame, page_messages, page_engine, display_buffer, page_received,
                   openai_service, chat_records, fetch_cache, db_clock>>

(* the generator is exhausted *)
ReplyComplete ==
    IF page_engine = Some(ECHO_ENGINE)
    THEN page_received = Len(stream_reply(page_messages))
    ELSE /\ openai_service[1].status = "finished"
         /\ page_received = Len(openai_service[1].reply)

(* the end of handle_chat: the assistant message is appended and the       *)
(* exchange saved by save_chat_message, which clears the fetch cache       *)
Finalize ==
    /\ page_pc = "streaming"
    /\ page_engine # None
    /\ ReplyComplete
    /\ page_messages' = Append(page_messages,
                               [role |-> "assistant", content |-> display_buffer])
    /\ chat_records' = Append(chat_records,
                              ChatRecord(db_clock + 1, SESSION_ID,
                                         page_messages[Len(page_messages)].content,
                                         display_buffer, db_clock + 1))
    /\ db_clock' = db_clock + 1
    /\ fetch_cache' = ClearedCache(fetch_cache)
    /\ page_pc' = "idle"
    /\ UNCHANGED <<pageFrame, page_engine, display_buffer, page_received, openai_service>>

(* the steps of the page and of its event loop *)
PageStep ==
    \/ HandleChat
    \/ EchoToken
    \/ RequestCompletion
    \/ CollectedToken
    \/ StreamRaises
    \/ Finalize

(* the steps of the completion service *)
ServiceStep ==
    \/ ServiceChunk
    \/ ServiceEnds
    \/ ServiceFails

NextPage == PageStep \/ ServiceStep

SpecPage == InitPage /\ [][NextPage]_vars

(* the page always gets its turn; nothing makes the service go on *)
SpecPageFair == SpecPage /\ WF_vars(PageStep)

-----------------------------------------------------------------------------
(* ChatManager of utils/chat_utils.py: the history file shared by the      *)
(* workers of the application, each holding its own ChatManager            *)

MaxFileMessages == 3

Workers == 1..2

(* _get_welcome_message: the list with the greeting (time stamp left out)  *)
WelcomeMessages == <<"welcome">>

(* json.dump(self.messages, f): the chunks handed to the file              *)
JsonDump(messages) == <<"[">> \o messages \o <<"]">>

(* json.load(f) of the text read: the list, or None when the text is not   *)
(* one well-formed list and the decoder raises                             *)
JsonLoad(text) ==
    IF /\ Len(text) >= 2
       /\ text[1] = "["
       /\ text[Len(text)] = "]"
       /\ \A i \in 2..(Len(text) - 1) : text[i] \notin {"[", "]", "NUL"}
    THEN Some(SubSeq(text, 2, Len(text) - 1))
    ELSE None

(* write(chunks) at a file offset: a gap past the end reads as NUL bytes   *)
WriteAt(content, offset, chunks) ==
    [i \in 1..Max2(Len(content), offset + Len(chunks)) |->
        IF i > offset /\ i <= offset + Len(chunks) THEN chunks[i - offset]
        ELSE IF i <= Len(content) THEN content[i]
        ELSE "NUL"]

Manager(pc, messages, pending, offset) ==
    [pc |-> pc, messages |-> messages, pending |-> pending, offset |-> offset]

InitLock ==
    /\ StoreIdle
    /\ today = FirstDay
    /\ FilterIdle
    /\ ClassifierIdle
    /\ EarlyIdle
    /\ RenderIdle /\ PageIdle /\ TrimIdle /\ CacheIdle
    /\ history_file = Some([exists |-> FALSE, content |-> <<>>])
    /\ file_lock = None
    /\ managers = [p \in Workers |-> Manager("new", <<>>, <<>>, 0)]

(* what no step of a ChatManager touches; nothing in the class takes or    *)
(* releases a lock, so file_lock is part of it                             *)
lockFrame == <<today, storeVars, filterVars, queryVars, earlyVars, renderVars, pageVars,
               trimVars, cacheVars, file_lock>>

(* load_chat_history when os.path.exists is false: the greeting            *)
LoadMissing(p) ==
    /\ managers[p].pc = "new"
    /\ ~history_file[1].exists
    /\ managers' = [managers EXCEPT ![p] = Manager("ready", WelcomeMessages, <<>>, 0)]
    /\ UNCHANGED <<lockFrame, history_file>>

(* load_chat_history: the file exists and open(chat_file, 'r') succeeded   *)
LoadOpen(p) ==
    /\ managers[p].pc = "new"
    /\ history_file[1].exists
    /\ managers' = [managers EXCEPT ![p].pc = "reading"]
    /\ UNCHANGED <<lockFrame, history_file>>

(* load_chat_history: json.load(f) of what the file holds now, the         *)
(* greeting when it raises; the file is closed on both paths               *)
LoadRead(p) ==
    /\ managers[p].pc = "reading"
    /\ LET loaded == JsonLoad(history_file[1].content)
       IN managers' = [managers EXCEPT ![p] =
                          Manager("ready",
                                  IF loaded = None THEN WelcomeMessages ELSE loaded[1],
                                  <<>>, 0)]
    /\ UNCHANGED <<lockFrame, history_file>>

(* save_chat_history up to the with statement: open(chat_file, 'w')        *)
(* creates or truncates the file, or raises and the error is swallowed     *)
SaveOpen(p, messages, opened) ==
    IF opened
    THEN /\ history_file' = Some([exists |-> TRUE, content |-> <<>>])
         /\ managers' = [managers EXCEPT ![p] =
                            Manager("writing", messages, JsonDump(messages), 0)]
    ELSE /\ history_file' = history_file
         /\ managers' = [managers EXCEPT ![p] = Manager("ready", messages, <<>>, 0)]

(* add_message: append to self.messages, then save_chat_history            *)
AddMessage(p) ==
    /\ managers[p].pc = "ready"
    /\ Len(managers[p].messages) < MaxFileMessages
    /\ \E role \in {"user", "assistant"}, opened \in BOOLEAN :
          SaveOpen(p, Append(managers[p].messages, role), opened)
    /\ UNCHANGED lockFrame

(* clear_history: the greeting again, then save_chat_history               *)
ClearHistory(p) ==
    /\ managers[p].pc = "ready"
    /\ Len(managers[p].messages) > 1
    /\ \E opened \in BOOLEAN : SaveOpen(p, WelcomeMessages, opened)
    /\ UNCHANGED lockFrame

(* json.dump inside the with statement: the next chunks reach the file at  *)
(* the offset of this worker's handle                                      *)
WriteChunk(p) ==
    /\ managers[p].pc = "writing"
    /\ managers[p].pending # <<>>
    /\ \E k \in 1..Len(managers[p].pending) :
          /\ history_file' = Some([history_file[1] EXCEPT !.content =
                                     WriteAt(@, managers[p].offset,
                                             SubSeq(managers[p].pending, 1, k))])
          /\ managers' = [managers EXCEPT
                             ![p].pending = SubSeq(@, k + 1, Len(@)),
                             ![p].offset = @ + k]
    /\ UNCHANGED lockFrame

(* end of the with statement of save_chat_history: the file is closed      *)
CloseFile(p) ==
    /\ managers[p].pc = "writing"
    /\ managers[p].pending = <<>>
    /\ managers' = [managers EXCEPT ![p] = Manager("ready", @.messages, <<>>, 0)]
    /\ UNCHANGED <<lockFrame, history_file>>

NextLock ==
    \E p \in Workers :
        \/ LoadMissing(p)
        \/ LoadOpen(p)
        \/ LoadRead(p)
        \/ AddMessage(p)
        \/ ClearHistory(p)
        \/ WriteChunk(p)
        \/ CloseFile(p)

SpecLock == InitLock /\ [][NextLock]_vars

-----------------------------------------------------------------------------
(* The Streamlit chatbot of app_pages/chatbot.py: st.session_state         *)
(* .chat_history under process_user_message                                *)

MaxChatTurns == 11

(* CHATBOT_CONFIG["max_chat_history"] *)
max_chat_history == 20

(* CHATBOT_CONFIG["welcome_message"], the first entry of a session *)
WELCOME_ENTRY == [role |-> "assistant", content |-> "welcome_message", timestamp |-> 0]

(* generate_bot_response: the first topic with a keyword inside the        *)
(* lowered input; the value stands for whichever text random.choice takes  *)
(* from the topic's list, with or without the appended status line         *)
generate_bot_response(user_input) ==
    IF AnyIn(Lower(user_input),
        {<<"t","e","m","p","e","r","a","t","u","r","e">>,
         <<"t","e","m","p">>,
         <<"w","a","r","m">>,
         <<"c","o","l","d">>,
         <<"h","e","a","t">>})
    THEN "temperature" ELSE
    IF AnyIn(Lower(user_input),
        {<<"s","a","l","i","n","i","t","y">>,
         <<"s","a","l","t">>,
         <<"p","s","u">>})
    THEN "salinity" ELSE
    IF AnyIn(Lower(user_input),
        {<<"d","e","p","t","h">>,
         <<"d","e","e","p">>,
         <<"p","r","o","f","i","l","e">>,
         <<"v","e","r","t","i","c","a","l">>})
    THEN "depth" ELSE
    IF AnyIn(Lower(user_input),
        {<<"l","o","c","a","t","i","o","n">>,
         <<"l","a","t","i","t","u","d","e">>,
         <<"l","o","n","g","i","t","u","d","e">>,
         <<"p","o","s","i","t","i","o","n">>,
         <<"c","o","o","r","d","i","n","a","t","e">>})
    THEN "location" ELSE
    IF AnyIn(Lower(user_input),
        {<<"a","r","a","b","i","a","n"," ","s","e","a">>,
         <<"b","a","y"," ","o","f"," ","b","e","n","g","a","l">>,
         <<"i","n","d","i","a","n"," ","o","c","e","a","n">>,
         <<"l","o","c","a","t","i","o","n">>,
         <<"r","e","g","i","o","n">>,
         <<"w","h","e","r","e">>})
    THEN "region" ELSE
    IF AnyIn(Lower(user_input),
        {<<"d","a","t","a">>,
         <<"a","n","a","l","y","s","i","s">>,
         <<"s","h","o","w">>,
         <<"c","o","m","p","a","r","e">>,
         <<"t","r","e","n","d">>})
    THEN "data" ELSE
    IF AnyIn(Lower(user_input),
        {<<"r","e","s","e","a","r","c","h">>,
         <<"s","t","u","d","y">>,
         <<"c","l","i","m","a","t","e">>,
         <<"p","a","t","t","e","r","n">>,
         <<"t","r","e","n","d">>,
         <<"s","c","i","e","n","c","e">>})
    THEN "research" ELSE
    IF AnyIn(Lower(user_input),
        {<<"h","e","l","p">>,
         <<"h","o","w">>,
         <<"w","h","a","t">>,
         <<"e","x","p","l","a","i","n">>,
         <<"g","u","i","d","e">>})
    THEN "help" ELSE
    IF AnyIn(Lower(user_input),
        {<<"h","e","l","l","o">>,
         <<"h","i">>,
         <<"h","e","y">>,
         <<"g","o","o","d"," ","m","o","r","n","i","n","g">>,
         <<"g","o","o","d"," ","a","f","t","e","r","n","o","o","n">>})
    THEN "greeting" ELSE "default"

(* history[-n:] *)
LastEntries(history, n) ==
    IF Len(history) <= n THEN history ELSE SubSeq(history, Len(history) - n + 1, Len(history))

(* the trimming mutated to keep the oldest entries, history[:n] *)
LimitHistoryKeepsOldest(history) ==
    IF Len(history) > max_chat_history THEN SubSeq(history, 1, max_chat_history) ELSE history

(* "Limit chat history size": the last max_chat_history entries once the   *)
(* list is longer than that                                                *)
LimitHistory(history) ==
    IF Len(history) > max_chat_history THEN LastEntries(history, max_chat_history) ELSE history

(* process_user_message(user_input) at a clock reading: the user entry,    *)
(* the reply entry, then the trimming; datetime.now() is the clock, which  *)
(* ticks once per entry                                                    *)
process_user_message(history, user_input, now) ==
    LimitHistory(history \o
        << [role |-> "user", content |-> user_input, timestamp |-> now + 1],
           [role |-> "assistant", content |-> generate_bot_response(user_input),
            timestamp |-> now + 2] >>)

(* what the user types into the form *)
UserInputs == {<<"H","i","!">>, <<"H","o","w"," ","d","e","e","p","?">>}

InitTrim ==
    /\ StoreIdle
    /\ today = FirstDay
    /\ FilterIdle
    /\ ClassifierIdle
    /\ EarlyIdle
    /\ RenderIdle /\ PageIdle /\ LockIdle /\ CacheIdle
    /\ st_chat_history = <<WELCOME_ENTRY>>
    /\ turn_clock = 0

(* a submitted, non-empty message of the chat form of the page, or of the  *)
(* sidebar form, whose process_sidebar_user_message is the same code       *)
ProcessUserMessage ==
    /\ turn_clock < 2 * MaxChatTurns
    /\ \E user_input \in UserInputs :
          st_chat_history' = process_user_message(st_chat_history, user_input, turn_clock)
    /\ turn_clock' = turn_clock + 2
    /\ UNCHANGED <<today, storeVars, filterVars, queryVars, earlyVars, renderVars, pageVars,
                   lockVars, cacheVars>>

NextTrim == ProcessUserMessage

SpecTrim == InitTrim /\ [][NextTrim]_vars

-----------------------------------------------------------------------------
(* db.py under the script threads of Streamlit: the table chat_records,    *)
(* the cache of fetch_chat_history, and the calls in flight                *)

MaxCommits == 2

(* the script threads *)
Threads == 1..2

(* "tab" is the session of one browser tab, whose script runs follow one   *)
(* another on thread 1; "shared" is a session id passed by both threads    *)
SessionsOf(t) == IF t = 1 THEN {"tab", "shared"} ELSE {"shared"}

(* the keyword and limit arguments of fetch_chat_history: the defaults,    *)
(* or a search word with a small limit                                     *)
FetchArgs == {<<None, 500>>, <<Some(<<"H","i">>), 1>>}

UserMessages == {<<"h","i">>, <<"y","o">>}

(* the ts argument of save_chat_message: left out, or a time in the past   *)
TsArgs == {None, Some(0)}

IdleCall == [pc |-> "idle", session_id |-> None, key |-> None, rows |-> None]

InitCache ==
    /\ StoreIdle
    /\ today = FirstDay
    /\ FilterIdle
    /\ ClassifierIdle
    /\ EarlyIdle
    /\ RenderIdle /\ PageIdle /\ LockIdle /\ TrimIdle
    /\ chat_records = <<>>
    /\ fetch_cache = <<>>
    /\ db_calls = [t \in Threads |-> IdleCall]
    /\ db_clock = 0

cacheFrame == <<today, storeVars, filterVars, queryVars, earlyVars, renderVars, pageVars,
                lockVars, trimVars>>

(* save_chat_message up to s.refresh(record): the row is committed         *)
SaveCommit(t) ==
    /\ db_calls[t].pc = "idle"
    /\ db_clock < MaxCommits
    /\ \E session_id \in SessionsOf(t), user_message \in UserMessages, ts \in TsArgs :
          /\ chat_records' = SavedRecords(chat_records, db_clock, session_id, user_message,
                                          <<"o","k">>, ts)
          /\ db_calls' = [db_calls EXCEPT ![t] =
                             [IdleCall EXCEPT !.pc = "saved", !.session_id = Some(session_id)]]
    /\ db_clock' = db_clock + 1
    /\ UNCHANGED <<cacheFrame, fetch_cache>>

(* clear_chat_history up to s.commit(): the rows of the session are gone   *)
ClearCommit(t) ==
    /\ db_calls[t].pc = "idle"
    /\ db_clock < MaxCommits
    /\ \E session_id \in SessionsOf(t) :
          /\ chat_records' = ClearedRecords(chat_records, session_id)
          /\ db_calls' = [db_calls EXCEPT ![t] =
                             [IdleCall EXCEPT !.pc = "cleared", !.session_id = Some(session_id)]]
    /\ db_clock' = db_clock + 1
    /\ UNCHANGED <<cacheFrame, fetch_cache>>

(* the rest of save_chat_message and of clear_chat_history:                *)
(* fetch_chat_history.clear(), then the return                             *)
InvalidateAndReturn(t) ==
    /\ db_calls[t].pc \in {"saved", "cleared"}
    /\ fetch_cache' = ClearedCache(fetch_cache)
    /\ db_calls' = [db_calls EXCEPT ![t] = IdleCall]
    /\ UNCHANGED <<cacheFrame, chat_records, db_clock>>

(* fetch_chat_history called with cached arguments: the cached frame is    *)
(* returned, the body does not run and nothing changes                     *)
FetchHit(t) ==
    /\ db_calls[t].pc = "idle"
    /\ \E session_id \in SessionsOf(t), args \in FetchArgs :
          CacheLookup(fetch_cache, FetchKey(session_id, args[1], args[2])) # None
    /\ UNCHANGED <<cacheFrame, chat_records, fetch_cache, db_calls, db_clock>>

(* fetch_chat_history on a miss: the body runs its query                   *)
FetchQuery(t) ==
    /\ db_calls[t].pc = "idle"
    /\ \E session_id \in SessionsOf(t), args \in FetchArgs :
          /\ CacheLookup(fetch_cache, FetchKey(session_id, args[1], args[2])) = None
          /\ \E rows \in fetch_chat_history(chat_records, FetchKey(session_id, args[1], args[2])) :
                db_calls' = [db_calls EXCEPT ![t] =
                                [pc |-> "fetched", session_id |-> Some(session_id),
                                 key |-> Some(FetchKey(session_id, args[1], args[2])),
                                 rows |-> Some(rows)]]
    /\ UNCHANGED <<cacheFrame, chat_records, fetch_cache, db_clock>>

(* fetch_chat_history on a miss: the frame the body returned is cached     *)
(* under the arguments and handed to the caller                            *)
FetchStore(t) ==
    /\ db_calls[t].pc = "fetched"
    /\ fetch_cache' = CacheWrite(fetch_cache, db_calls[t].key[1], db_calls[t].rows[1])
    /\ db_calls' = [db_calls EXCEPT ![t] = IdleCall]
    /\ UNCHANGED <<cacheFrame, chat_records, db_clock>>

NextCache ==
    \E t \in Threads :
        \/ SaveCommit(t)
        \/ ClearCommit(t)
        \/ InvalidateAndReturn(t)
        \/ FetchHit(t)
        \/ FetchQuery(t)
        \/ FetchStore(t)

SpecCache == InitCache /\ [][NextCache]_vars

-----------------------------------------------------------------------------
(* Properties of the chat store (specification Spec) *)

ConversationIds(s) == {s.conversations[i].id : i \in 1..Len(s.conversations)}

IdList(conversations) == [i \in 1..Len(conversations) |-> conversations[i].id]

(* the conversation of the store with this id *)
ConversationOf(s, id) ==
    s.conversations[CHOOSE i \in 1..Len(s.conversations) : s.conversations[i].id = id]

IsPrefix(p, q) == Len(p) <= Len(q) /\ SubSeq(q, 1, Len(p)) = p

(* the text carries a character that is not white space *)
NonBlank(text) == \E i \in 1..Len(text) : text[i] # " "

(* the last event was a send (button, Enter or quick bubble) *)
WasSend == last_event.kind \in {"send-button", "chat-input", "quick-bubble"}

(* the text the last event asked to send *)
SentText ==
    IF last_event.kind = "quick-bubble"
    THEN IF last_event.key \in DOMAIN QUICK_QUERY_LOOKUP
         THEN QUICK_QUERY_LOOKUP[last_event.key] ELSE <<>>
    ELSE IF prev_input = None THEN <<>> ELSE prev_input[1]

WasNonBlankSend == WasSend /\ NonBlank(SentText)

WasNewChat == last_event.kind = "new-chat-btn"

WasSelectOfExisting ==
    last_event.kind = "history-entry" /\ last_event.index \in ConversationIds(prev_store)

(* before the last event the store had no conversation to append to *)
HadNoActiveConversation ==
    prev_store.active_id = None \/ prev_store.active_id[1] \notin ConversationIds(prev_store)

(* C1: every message id is unique across all conversations of the store,   *)
(* and within each conversation the ids strictly increase in list order.   *)
C1_MessageIdsUniqueAndIncreasing ==
    /\ \A i, j \in 1..Len(store.conversations) :
          \A a \in 1..Len(store.conversations[i].messages),
             b \in 1..Len(store.conversations[j].messages) :
                store.conversations[i].messages[a].id = store.conversations[j].messages[b].id
                    => (i = j /\ a = b)
    /\ \A i \in 1..Len(store.conversations) :
          \A a, b \in 1..Len(store.conversations[i].messages) :
                a < b => store.conversations[i].messages[a].id
                            < store.conversations[i].messages[b].id

(* two conversations hold messages, one of them two exchanges *)
C1_Witness ==
    \E i, j \in 1..Len(store.conversations) :
        /\ i # j
        /\ Len(store.conversations[i].messages) >= 2
        /\ Len(store.conversations[j].messages) >= 2

(* C2: after an event that creates a conversation, selects an existing     *)
(* conversation or sends a non-blank message, the conversation named by    *)
(* active_id is the first of the list and the others keep their order.     *)
C2_ActiveConversationFirst ==
    (WasNewChat \/ WasSelectOfExisting \/ WasNonBlankSend) =>
        /\ store.conversations # <<>>
        /\ store.active_id = Some(store.conversations[1].id)
        /\ SelectSeq(IdList(store.conversations), LAMBDA id : Some(id) # store.active_id)
             = SelectSeq(IdList(prev_store.conversations), LAMBDA id : Some(id) # store.active_id)

(* a send or a selection brought the last of three conversations to the front *)
C2_Witness ==
    /\ WasSelectOfExisting \/ WasNonBlankSend
    /\ Len(prev_store.conversations) >= 3
    /\ prev_store.conversations[Len(prev_store.conversations)].id = store.conversations[1].id

(* C3: no event removes a conversation or a message: every conversation of *)
(* the store before the event is in the store after it, and its messages   *)
(* before the event are a prefix of its messages after it.                 *)
C3_NothingRemoved ==
    \A id \in ConversationIds(prev_store) :
        /\ id \in ConversationIds(store)
        /\ IsPrefix(ConversationOf(prev_store, id).messages, ConversationOf(store, id).messages)

(* a new chat was opened while the active conversation held messages *)
C3_Witness ==
    /\ WasNewChat
    /\ ~HadNoActiveConversation
    /\ ConversationOf(prev_store, prev_store.active_id[1]).messages # <<>>
    /\ Len(store.conversations) >= 3

(* C4: a new-chat event always creates one fresh conversation with no      *)
(* messages and makes it active; a non-blank send creates one conversation *)
(* only when active_id is None or names no existing conversation, and      *)
(* otherwise appends to the active conversation; nothing else creates one. *)
C4_ConversationCreation ==
    LET before == ConversationIds(prev_store)
        after == ConversationIds(store)
    IN  /\ WasNewChat =>
              /\ Cardinality(after \ before) = 1
              /\ Len(store.conversations) = Len(prev_store.conversations) + 1
              /\ store.conversations[1].id \notin before
              /\ store.conversations[1].messages = <<>>
              /\ store.active_id = Some(store.conversations[1].id)
        /\ (WasNonBlankSend /\ HadNoActiveConversation) =>
              /\ Cardinality(after \ before) = 1
              /\ Len(store.conversations) = Len(prev_store.conversations) + 1
              /\ store.conversations[1].id \notin before
              /\ Len(store.conversations[1].messages) = 2
              /\ store.active_id = Some(store.conversations[1].id)
        /\ (WasNonBlankSend /\ ~HadNoActiveConversation) =>
              /\ after = before
              /\ Len(store.conversations) = Len(prev_store.conversations)
              /\ store.active_id = prev_store.active_id
              /\ LET old == ConversationOf(prev_store, prev_store.active_id[1]).messages
                     new == ConversationOf(store, prev_store.active_id[1]).messages
                 IN  Len(new) = Len(old) + 2 /\ IsPrefix(old, new)
        /\ ~(WasNewChat \/ WasNonBlankSend) =>
              /\ after = before
              /\ Len(store.conversations) = Len(prev_store.conversations)

(* a send created a conversation although the store already had some,      *)
(* because active_id named none of them                                    *)
C4_Witness ==
    /\ WasNonBlankSend
    /\ prev_store.conversations # <<>>
    /\ prev_store.active_id # None
    /\ HadNoActiveConversation
    /\ Len(store.conversations) = Len(prev_store.conversations) + 1

(* the messages of the conversation the last send appended to, as they    *)
(* were before it                                                          *)
MessagesBeforeSend ==
    IF HadNoActiveConversation THEN <<>>
    ELSE ConversationOf(prev_store, prev_store.active_id[1]).messages

(* user, bot, user, bot, ... *)
Alternating(messages) ==
    /\ Len(messages) % 2 = 0
    /\ \A i \in 1..Len(messages) :
          messages[i].sender = (IF i % 2 = 1 THEN "user" ELSE "bot")

(* C24: every non-blank send appends exactly two messages to the active    *)
(* conversation, the user message with id message_counter + 1 and then the *)
(* bot message with id message_counter + 2, and raises message_counter by  *)
(* 2; so the messages of every conversation alternate user, bot from a     *)
(* user message and are even in number.                                    *)
C24_SendAppendsUserThenBot ==
    /\ WasNonBlankSend =>
          LET old == MessagesBeforeSend
              new == ConversationOf(store, store.active_id[1]).messages
          IN  /\ Len(new) = Len(old) + 2
              /\ IsPrefix(old, new)
              /\ new[Len(old) + 1].sender = "user"
              /\ new[Len(old) + 1].id = prev_store.message_counter + 1
              /\ new[Len(old) + 2].sender = "bot"
              /\ new[Len(old) + 2].id = prev_store.message_counter + 2
              /\ store.message_counter = prev_store.message_counter + 2
    /\ \A i \in 1..Len(store.conversations) : Alternating(store.conversations[i].messages)

(* a quick bubble sent a second exchange into the active conversation *)
C24_Witness ==
    /\ WasNonBlankSend
    /\ last_event.kind = "quick-bubble"
    /\ Len(MessagesBeforeSend) = 2
    /\ Len(ConversationOf(store, store.active_id[1]).messages) = 4

RECURSIVE MessageCount(_)
(* the messages of all the conversations together *)
MessageCount(conversations) ==
    IF conversations = <<>> THEN 0
    ELSE Len(Head(conversations).messages) + MessageCount(Tail(conversations))

MessageIds(s) ==
    UNION {{s.conversations[i].messages[a].id : a \in 1..Len(s.conversations[i].messages)} :
              i \in 1..Len(s.conversations)}

(* the largest number of the set, 0 for the empty set *)
Largest(numbers) ==
    IF numbers = {} THEN 0 ELSE CHOOSE n \in numbers : \A k \in numbers : k <= n

(* C25: in every store reached from the default store, conversation_counter *)
(* is the number of conversations and the largest conversation id,         *)
(* message_counter is the number of messages of all conversations and the  *)
(* largest message id; so the next conversation id is the id of no         *)
(* existing conversation.                                                  *)
C25_CountersCountAndBound ==
    /\ store.conversation_counter = Len(store.conversations)
    /\ store.conversation_counter = Largest(ConversationIds(store))
    /\ store.message_counter = MessageCount(store.conversations)
    /\ store.message_counter = Largest(MessageIds(store))
    /\ store.conversation_counter + 1 \notin ConversationIds(store)

(* three conversations, four messages, the newest conversation not first *)
C25_Witness ==
    /\ Len(store.conversations) = 3
    /\ store.message_counter = 4
    /\ store.conversations[1].id # 3

(* the last event was a send of a blank message or had an unrelated trigger *)
WasBlankSendOrUnrelated ==
    \/ WasSend /\ ~NonBlank(SentText)
    \/ last_event.kind = "other"

(* C26: a send whose message is blank after stripping (empty or white      *)
(* space input, quick bubble with an unknown key) and an event with an     *)
(* unrelated trigger leave the store as it was (conversations, messages,   *)
(* active_id, both counters) and do not clear the input text.              *)
C26_BlankSendChangesNothing ==
    WasBlankSendOrUnrelated =>
        /\ store = prev_store
        /\ chat_input = Some(IF prev_input = None THEN <<>> ELSE prev_input[1])

(* a white-space input was submitted while the store held a conversation *)
C26_Witness ==
    /\ last_event.kind \in {"send-button", "chat-input"}
    /\ prev_input = Some(<<" ", " ">>)
    /\ prev_store.conversations # <<>>
    /\ prev_store.message_counter > 0
    /\ store = prev_store

(* a quick bubble with an unknown key was pressed over a typed text *)
UnknownBubbleOverText ==
    /\ last_event.kind = "quick-bubble"
    /\ last_event.key \notin DOMAIN QUICK_QUERY_LOOKUP
    /\ prev_input # None /\ NonBlank(prev_input[1])

-----------------------------------------------------------------------------
(* Properties of the filter engine (specification SpecFilter) *)

BuiltDataset == fop = "build_filtered_dataset"

(* the argument is a two-element list *)
IsPair(arg) == ~arg.none /\ Len(arg.val) = 2

Reversed(arg) == PyList(<<arg.val[2], arg.val[1]>>)

(* the catalog the call filters: the catalogs of the requested regions one *)
(* after the other, the default region's when none is requested           *)
RequestedCatalog(a, day) ==
    LET keys == IF a.regions.none \/ a.regions.val = <<>>
                THEN <<DEFAULT_REGION>> ELSE a.regions.val
    IN  ConcatFrames([k \in 1..Len(keys) |-> Catalogs[keys[k], day]])

(* the argument sets with the regions of `a` that drop any number of the   *)
(* other constraints of `a`                                                *)
FewerConstraints(a) ==
    {[regions |-> a.regions, lat_range |-> la, lon_range |-> lo, depth_range |-> de,
      date_range |-> da, statuses |-> st, float_types |-> ty] :
        la \in {a.lat_range, PyNone}, lo \in {a.lon_range, PyNone},
        de \in {a.depth_range, PyNone}, da \in {a.date_range, PyNone},
        st \in {a.statuses, PyList(<<>>)}, ty \in {a.float_types, PyNone}}

(* the same, and the region constraint may be dropped as well *)
FewerConstraintsOrRegions(a) ==
    FewerConstraints(a) \cup FewerConstraints([a EXCEPT !.regions = PyNone])

(* C5 as claimed: a call returns no more rows than any call with a subset  *)
(* of its constraints, regions included (an absent argument is no          *)
(* constraint).                                                            *)
C5_MonotonicInEveryDimension ==
    BuiltDataset =>
        \A fewer \in FewerConstraintsOrRegions(fargs) :
            Len(dataset.rows) <= Len(build_filtered_dataset(fewer, today))

(* C5 amended: for the same regions argument, a call returns no more rows  *)
(* than any call with a subset of its lat_range, lon_range, depth_range,   *)
(* date_range, statuses and float_types constraints.                       *)
C5_MonotonicForSameRegions ==
    BuiltDataset =>
        \A fewer \in FewerConstraints(fargs) :
            Len(dataset.rows) <= Len(build_filtered_dataset(fewer, today))

(* four constraints together kept some rows, a part of them keeps more and *)
(* none of them keeps more still                                           *)
C5_Witness ==
    /\ BuiltDataset
    /\ IsPair(fargs.lat_range) /\ IsPair(fargs.depth_range)
    /\ Truthy(fargs.statuses) /\ Truthy(fargs.float_types)
    /\ dataset.rows # <<>>
    /\ \E fewer \in FewerConstraints(fargs) :
          /\ Len(dataset.rows) < Len(build_filtered_dataset(fewer, today))
          /\ Len(build_filtered_dataset(fewer, today)) < Len(RequestedCatalog(fargs, today))

(* the row passes every predicate the arguments make active *)
Satisfies(r, a) ==
    /\ IsPair(a.lat_range) =>
          /\ Min2(a.lat_range.val[1], a.lat_range.val[2]) <= r.latitude
          /\ r.latitude <= Max2(a.lat_range.val[1], a.lat_range.val[2])
    /\ IsPair(a.lon_range) =>
          /\ Min2(a.lon_range.val[1], a.lon_range.val[2]) <= r.longitude
          /\ r.longitude <= Max2(a.lon_range.val[1], a.lon_range.val[2])
    /\ IsPair(a.depth_range) =>
          /\ Min2(a.depth_range.val[1], a.depth_range.val[2]) <= r.depth
          /\ r.depth <= Max2(a.depth_range.val[1], a.depth_range.val[2])
    /\ (IsPair(a.date_range) /\ a.date_range.val[1] # None /\ a.date_range.val[2] # None) =>
          /\ a.date_range.val[1][1] <= r.timestamp
          /\ r.timestamp <= a.date_range.val[2][1]
    /\ (~a.statuses.none /\ a.statuses.val # <<>>) =>
          r.float_status \in SeqToSet(a.statuses.val)
    /\ (~a.float_types.none /\ a.float_types.val # <<>>) =>
          r.float_type \in SeqToSet(a.float_types.val)

(* C6: build_filtered_dataset returns exactly the rows of the requested    *)
(* regions' catalogs that satisfy every active predicate at once, range    *)
(* endpoints and date window inclusive; None or empty arguments add none.  *)
C6_ExactlyTheSatisfyingRows ==
    BuiltDataset =>
        LET expected == {r \in SeqToSet(RequestedCatalog(fargs, today)) : Satisfies(r, fargs)}
        IN  /\ SeqToSet(dataset.rows) = expected
            /\ Len(dataset.rows) = Cardinality(expected)

(* rows sitting exactly on a latitude, a depth and a date endpoint were    *)
(* kept while other rows of the catalog were dropped                       *)
C6_Witness ==
    /\ BuiltDataset
    /\ IsPair(fargs.lat_range) /\ IsPair(fargs.depth_range) /\ DateActive(fargs.date_range)
    /\ \E i \in 1..Len(dataset.rows) : dataset.rows[i].latitude \in SeqToSet(fargs.lat_range.val)
    /\ \E i \in 1..Len(dataset.rows) : dataset.rows[i].depth \in SeqToSet(fargs.depth_range.val)
    /\ \E i \in 1..Len(dataset.rows) :
          Some(dataset.rows[i].timestamp) \in SeqToSet(fargs.date_range.val)
    /\ Len(dataset.rows) < Len(RequestedCatalog(fargs, today))

(* C7: for each of lat_range, lon_range and depth_range the pair [a, b]    *)
(* and the reversed pair [b, a] give the same rows, whatever the other     *)
(* arguments are.                                                          *)
C7_RangeOrderIndependent ==
    BuiltDataset =>
        /\ IsPair(fargs.lat_range) =>
              dataset.rows = build_filtered_dataset(
                  [fargs EXCEPT !.lat_range = Reversed(fargs.lat_range)], today)
        /\ IsPair(fargs.lon_range) =>
              dataset.rows = build_filtered_dataset(
                  [fargs EXCEPT !.lon_range = Reversed(fargs.lon_range)], today)
        /\ IsPair(fargs.depth_range) =>
              dataset.rows = build_filtered_dataset(
                  [fargs EXCEPT !.depth_range = Reversed(fargs.depth_range)], today)

(* all three ranges were given high end first and still selected rows *)
C7_Witness ==
    /\ BuiltDataset
    /\ IsPair(fargs.lat_range) /\ fargs.lat_range.val[1] > fargs.lat_range.val[2]
    /\ IsPair(fargs.lon_range) /\ fargs.lon_range.val[1] > fargs.lon_range.val[2]
    /\ IsPair(fargs.depth_range) /\ fargs.depth_range.val[1] > fargs.depth_range.val[2]
    /\ dataset.rows # <<>>
    /\ Len(dataset.rows) < Len(RequestedCatalog(fargs, today))

(* the date window has exactly one endpoint *)
PartialWindow(date_range) ==
    /\ IsPair(date_range)
    /\ (date_range.val[1] = None) # (date_range.val[2] = None)

(* C8: a date window with only one endpoint filters exactly like no date   *)
(* window, in build_filtered_dataset and when update_sidebar_content or    *)
(* export_sidebar_data take the window from the chat context.              *)
C8_PartialDateWindowIgnored ==
    (fop # "idle" /\ dataset.made /\ PartialWindow(fargs.date_range)) =>
        dataset.rows = build_filtered_dataset([fargs EXCEPT !.date_range = PyNone], today)

(* a callback got a window with one endpoint from the context and kept a   *)
(* row that lies beyond that endpoint                                      *)
C8_Witness ==
    /\ fop \in {"update_sidebar_content", "export_sidebar_data"}
    /\ dataset.made
    /\ PartialWindow(fargs.date_range)
    /\ \E i \in 1..Len(dataset.rows) :
          \/ fargs.date_range.val[1] # None
             /\ dataset.rows[i].timestamp < fargs.date_range.val[1][1]
          \/ fargs.date_range.val[2] # None
             /\ dataset.rows[i].timestamp > fargs.date_range.val[2][1]

(* no argument but regions constrains the call *)
OnlyRegionsGiven(a) ==
    /\ ~IsPair(a.lat_range) /\ ~IsPair(a.lon_range) /\ ~IsPair(a.depth_range)
    /\ ~DateActive(a.date_range) /\ ~Truthy(a.statuses) /\ ~Truthy(a.float_types)

(* the row lies in the bounding box of the default region *)
InDefaultBox(r) ==
    /\ REGION_CONFIGS[DEFAULT_REGION].lat_range[1] <= r.latitude
    /\ r.latitude <= REGION_CONFIGS[DEFAULT_REGION].lat_range[2]
    /\ REGION_CONFIGS[DEFAULT_REGION].lon_range[1] <= r.longitude
    /\ r.longitude <= REGION_CONFIGS[DEFAULT_REGION].lon_range[2]

(* the rows the model keeps of the catalog of a region with this point_count *)
SampledPoints(point_count) == (Max2(point_count * 10, 200) * SampleRows) \div 200

(* C16: a region key that is not in REGION_CONFIGS raises nothing: its      *)
(* catalog has the bounding box and the point count of the default region  *)
(* (indian_ocean); build_filtered_dataset with no regions at all uses the  *)
(* default region.                                                         *)
C16_UnknownRegionUsesDefault ==
    BuiltDataset =>
        /\ \A i \in 1..Len(dataset.rows) :
              dataset.rows[i].region \notin DOMAIN REGION_CONFIGS => InDefaultBox(dataset.rows[i])
        /\ (OnlyRegionsGiven(fargs) /\ Truthy(fargs.regions)
                /\ \A k \in 1..Len(fargs.regions.val) :
                       fargs.regions.val[k] \notin DOMAIN REGION_CONFIGS) =>
              Len(dataset.rows) = Len(fargs.regions.val)
                                    * SampledPoints(REGION_CONFIGS[DEFAULT_REGION].point_count)
        /\ (fargs.regions.none \/ fargs.regions.val = <<>>) =>
              /\ \A i \in 1..Len(dataset.rows) : dataset.rows[i].region = DEFAULT_REGION
              /\ OnlyRegionsGiven(fargs) =>
                    SeqToSet(dataset.rows) = SeqToSet(Catalogs[DEFAULT_REGION, today])

(* the catalog of the unknown key "atlantis" was built, unfiltered: its     *)
(* rows carry the key and an id made of it                                 *)
C16_Witness ==
    /\ BuiltDataset
    /\ fargs.regions = PyList(<<"atlantis">>)
    /\ OnlyRegionsGiven(fargs)
    /\ dataset.rows # <<>>
    /\ \A i \in 1..Len(dataset.rows) :
          /\ dataset.rows[i].region = "atlantis"
          /\ Take(dataset.rows[i].float_id, 2) = <<"A", "T">>

-----------------------------------------------------------------------------
(* Properties of the chat classifier (specification SpecQuery) *)

(* the lower-cased query carries the word *)
QueryHas(word) == Contains(Lower(query), word)

(* the query carries "temperature" and "compare" *)
TemperatureAndCompare == QueryHas(STR_temperature) /\ QueryHas(STR_compare)

(* the figures the plot selection step of the last call produced *)
SelectedPlots ==
    IF qop = "generate_chat_driven_plots" THEN response.app_figures ELSE response.figures

KeptOnly(status) ==
    \A i \in 1..Len(response.filtered_data.rows) :
        response.filtered_data.rows[i].float_status = status

(* C10 as claimed: a query containing 'inactive', 'not working' or 'dead'  *)
(* gets status 'Inactive' and only Inactive rows; a query whose status     *)
(* word is 'active', 'working' or 'operational' gets status 'Active' and   *)
(* only Active rows.                                                       *)
C10_StatusWordSetsFilter ==
    qop = "generate_response" =>
        /\ AnyIn(Lower(query), INACTIVE_WORDS) =>
              /\ response.filters_applied.status = Some("Inactive")
              /\ KeptOnly("Inactive")
        /\ (AnyIn(Lower(query), ACTIVE_WORDS) /\ ~AnyIn(Lower(query), INACTIVE_WORDS)) =>
              /\ response.filters_applied.status = Some("Active")
              /\ KeptOnly("Active")

-----------------------------------------------------------------------------
(* Properties of the annotations (specification SpecAnalysis) *)

(* the parameter-focus words, a word before the words it contains *)
FOCUS_WORD_LIST ==
    <<<<"t","e","m","p","e","r","a","t","u","r","e">>,
      <<"t","e","m","p">>,
      <<"t","h","e","r","m","a","l">>,
      <<"s","a","l","i","n","i","t","y">>,
      <<"s","a","l","t">>,
      <<"p","s","u">>>>

RECURSIVE RemoveAll(_, _)
(* the text with every occurrence of the word taken out, left to right *)
RemoveAll(text, word) ==
    IF Len(text) < Len(word) THEN text
    ELSE IF SubSeq(text, 1, Len(word)) = word
    THEN RemoveAll(SubSeq(text, Len(word) + 1, Len(text)), word)
    ELSE <<Head(text)>> \o RemoveAll(Tail(text), word)

RECURSIVE RemoveWords(_, _)
RemoveWords(text, words) ==
    IF words = <<>> THEN text
    ELSE RemoveWords(RemoveAll(text, Head(words)), Tail(words))

(* the query in lower case with its parameter-focus words removed *)
WithoutFocusWords(q) == RemoveWords(Lower(q), FOCUS_WORD_LIST)

(* what apply_chat_filters returns for the query without its focus words *)
PlainApplied == apply_chat_filters(WithoutFocusWords(query), ChatBaseData[today])

(* C11: the rows apply_chat_filters returns for a query are the rows it     *)
(* returns for the query with its parameter-focus words removed; those     *)
(* words change only filters_applied['parameter_focus'] and remove no row. *)
C11_FocusWordsOnlyAnnotate ==
    qop = "generate_response" =>
        /\ response.filtered_data.rows = PlainApplied.filtered_data.rows
        /\ \A k \in DOMAIN response.filters_applied \ {"parameter_focus"} :
              response.filters_applied[k] = PlainApplied.filters_applied[k]

(* the analysis a figure belongs to; the overview belongs to none *)
AnalysisOfPlot(figure) ==
    CASE figure \in {"temperature_profile", "salinity_profile"} -> Some("Profile Analysis")
      [] figure = "time_series" -> Some("Time Series")
      [] figure = "regional_comparison" -> Some("Regional Comparison")
      [] figure = "correlation" -> Some("Correlation Analysis")
      [] OTHER -> None

(* the analyses whose plot branch ran for the response *)
PlotBranches == {AnalysisOfPlot(f) : f \in SeqToSet(response.figures)} \ {None}

(* C13: the plot branches that run in generate_chat_driven_plots agree     *)
(* with the analysis_type apply_chat_filters sets for the same query: the  *)
(* plot of that analysis and no other, and no analysis plot when no        *)
(* analysis_type is set.                                                   *)
C13_AnalysisTypeSelectsPlots ==
    qop = "generate_response" =>
        PlotBranches = IF response.filters_applied.analysis_type = None THEN {}
                       ELSE {response.filters_applied.analysis_type}

-----------------------------------------------------------------------------
(* Properties of the depth adjectives (specification SpecDepth) *)

ShallowWord == AnyIn(Lower(query), SHALLOW_WORDS)
DeepWord == AnyIn(Lower(query), DEEP_WORDS)

(* the rows of the frame handed in whose column is below / above the limit *)
RowsBelow(column, limit) == SelectSeq(base_frame[1].rows, LAMBDA r : r[column] < limit)
RowsAbove(column, limit) == SelectSeq(base_frame[1].rows, LAMBDA r : r[column] > limit)

(* the call kept these rows and set this depth annotation *)
DepthOutcome(rows, annotation) ==
    /\ response.filtered_data.rows = rows
    /\ response.filters_applied.depth = annotation

(* C12: with a 'depth' column a shallow word keeps depth < 500 and a deep   *)
(* word depth > 1000; with only 'max_depth' the limits are < 1000 and      *)
(* > 1500; with both columns 'depth' is used; with a shallow and a deep    *)
(* word only the shallow filter applies; with neither column there is no   *)
(* depth filter and no depth annotation.                                   *)
C12_DepthThresholdsByColumn ==
    qop = "apply_chat_filters" =>
        LET columns == base_frame[1].columns
        IN  IF "depth" \in columns
            THEN IF ShallowWord
                 THEN DepthOutcome(RowsBelow("depth", 500), Some("Shallow (<500m)"))
                 ELSE IF DeepWord
                 THEN DepthOutcome(RowsAbove("depth", 1000), Some("Deep (>1000m)"))
                 ELSE DepthOutcome(base_frame[1].rows, None)
            ELSE IF "max_depth" \in columns
            THEN IF ShallowWord
                 THEN DepthOutcome(RowsBelow("max_depth", 1000), Some("Shallow (<1000m)"))
                 ELSE IF DeepWord
                 THEN DepthOutcome(RowsAbove("max_depth", 1500), Some("Deep (>1500m)"))
                 ELSE DepthOutcome(base_frame[1].rows, None)
            ELSE DepthOutcome(base_frame[1].rows, None)

(* a query with a shallow and a deep word met a frame with both columns:   *)
(* a row was kept whose max_depth is above 1500 and a row on the limit     *)
(* depth = 500 was dropped                                                 *)
C12_Witness ==
    /\ qop = "apply_chat_filters"
    /\ {"depth", "max_depth"} \subseteq base_frame[1].columns
    /\ ShallowWord /\ DeepWord
    /\ \E i \in 1..Len(response.filtered_data.rows) :
          response.filtered_data.rows[i].max_depth > 1500
    /\ \E i \in 1..Len(base_frame[1].rows) :
          /\ base_frame[1].rows[i].depth = 500
          /\ ~InList(base_frame[1].rows[i], response.filtered_data.rows)

-----------------------------------------------------------------------------
(* Properties of seeded_rng (specification SpecSeed) *)

(* the code point sum of the label given to seeded_rng *)
LabelTotal == CodePointSum(rng_label, 1, Len(rng_label))

(* total = q * (2**32 - 1) + r, written as total + q = q * 2**32 + r *)
IsQuotientAndRemainder(total, q, r) ==
    WideAdd(total, Wide(q)) = [hi |-> q * 65536 + r.hi, lo |-> r.lo]

(* r lies in 0 .. 2**32 - 2 *)
BelowModulus(r) ==
    /\ r.hi \in 0..65535
    /\ r.lo \in 0..65535
    /\ ~(r.hi = 65535 /\ r.lo = 65535)

(* the remainder of the label's code point sum modulo 2**32 - 1 is r *)
TotalLeaves(r) ==
    /\ BelowModulus(r)
    /\ \E q \in 0..2 : IsQuotientAndRemainder(LabelTotal, q, r)

(* C14: the seed is the label's code point sum modulo 2**32 - 1, replaced  *)
(* by 1 when that is 0 (as for the empty label); it lies in 1 .. 2**32 - 2.*)
C14_SeedIsSumModuloOrOne ==
    rng_seed # None =>
        /\ BelowModulus(rng_seed[1])
        /\ rng_seed[1] # Wide(0)
        /\ IF TotalLeaves(Wide(0)) THEN rng_seed[1] = Wide(1) ELSE TotalLeaves(rng_seed[1])
        /\ rng_label = <<>> => rng_seed[1] = Wide(1)

(* a label whose code point sum is 2**32 - 1 exactly was seeded with 1 *)
C14_Witness ==
    /\ rng_seed = Some(Wide(1))
    /\ LabelTotal = [hi |-> 65535, lo |-> 65535]

-----------------------------------------------------------------------------
(* Properties of the catalog generator (specification SpecCatalog) *)

STABLE_COLUMNS ==
    {"float_id", "latitude", "longitude", "depth", "float_status", "float_type",
     "temperature", "salinity", "cycle_number", "battery_level"}

(* the frame restricted to the columns that do not depend on the day *)
StableColumns(frame) ==
    [i \in 1..Len(frame) |-> [c \in STABLE_COLUMNS |-> frame[i][c]]]

(* C15: two calls of generate_dummy_map_data with the same region, in any  *)
(* order relative to other calls, yield identical float_id, latitude,      *)
(* longitude, depth, float_status, float_type, temperature, salinity,      *)
(* cycle_number and battery_level columns in the same row order.           *)
C15_CatalogDeterministic ==
    \A i, j \in 1..Len(catalog_log) :
        catalog_log[i].region = catalog_log[j].region =>
            StableColumns(catalog_log[i].frame) = StableColumns(catalog_log[j].frame)

(* the same region was generated twice, on different days, with a call for *)
(* another region and draws from the global generator in between; the two  *)
(* frames differ, in their timestamps only                                 *)
C15_Witness ==
    \E i, k, j \in 1..Len(catalog_log) :
        /\ i < k /\ k < j
        /\ catalog_log[i].region = catalog_log[j].region
        /\ catalog_log[k].region # catalog_log[i].region
        /\ catalog_log[i].day # catalog_log[j].day
        /\ catalog_log[i].drawn < catalog_log[j].drawn
        /\ catalog_log[i].frame # catalog_log[j].frame

-----------------------------------------------------------------------------
(* Properties of compute_parameter_snapshot (specification SpecSnapshot) *)

(* the parameter is missing: None or the empty string *)
ParameterMissing(parameter) == parameter = None \/ parameter[1] = ""

(* the column a parameter is computed from: the one PARAMETER_COLUMN_MAP   *)
(* names, float_id for the float count of "Location", none for any other   *)
SnapshotColumn(parameter) ==
    IF parameter = "Location" THEN Some("float_id") ELSE ParameterColumn(parameter)

(* every cell of the column is null *)
AllNull(data_frame, column) ==
    \A i \in 1..Len(data_frame.rows) : data_frame.rows[i][column] = None

(* C17: compute_parameter_snapshot returns None and raises nothing when the *)
(* dataset is empty, the parameter is missing or unknown, the parameter's  *)
(* column is absent or all its values are null; in every other case it     *)
(* returns a record with label, value, unit and method.                    *)
C17_SnapshotNoneOrRecord ==
    snapshot # None =>
        LET a == snapshot_args[1]
            none_case ==
                \/ IsEmptyFrame(a.dataset)
                \/ ParameterMissing(a.parameter)
                \/ SnapshotColumn(a.parameter[1]) = None
                \/ SnapshotColumn(a.parameter[1])[1] \notin a.dataset.columns
                \/ AllNull(a.dataset, SnapshotColumn(a.parameter[1])[1])
        IN  IF none_case THEN snapshot[1] = ReturnedNone
            ELSE /\ snapshot[1].kind = "record"
                 /\ {"label", "value", "unit", "method"} \subseteq DOMAIN snapshot[1]

-----------------------------------------------------------------------------
(* Properties of generate_dummy_export_df (specification SpecExport) *)

(* no name of PARAMETER_COLUMN_MAP is among the parameters *)
NoRecognisedParameter(parameters) ==
    \/ ~Truthy(parameters)
    \/ \A i \in 1..Len(parameters.val) : ParameterColumn(parameters.val[i]) = None

(* the exported header when no parameter is recognised *)
DEFAULT_EXPORT_HEADER ==
    <<"float_id", "region", "Latitude", "Longitude", "Date", "float_status",
      "float_type", "Depth_m", "cycle_number", "battery_level", "last_profile",
      "Temp_C", "Salinity_PSU">>

NoDuplicate(s) == \A i, j \in 1..Len(s) : s[i] = s[j] => i = j

(* C18: generate_dummy_export_df with parameters None, empty or without a  *)
(* recognised name returns a table with the columns Temp_C, Salinity_PSU   *)
(* and Depth_m; the columns and their order are the same whether the       *)
(* filtered dataset has rows or not, and no column appears twice.          *)
C18_DefaultExportColumns ==
    (fop = "generate_dummy_export_df" /\ NoRecognisedParameter(export_parameters)) =>
        /\ {"Temp_C", "Salinity_PSU", "Depth_m"} \subseteq SeqToSet(dataset.columns)
        /\ dataset.columns = DEFAULT_EXPORT_HEADER
        /\ NoDuplicate(dataset.columns)

(* an export of an empty dataset for a parameter list without a recognised *)
(* name                                                                    *)
C18_Witness ==
    /\ fop = "generate_dummy_export_df"
    /\ Truthy(export_parameters)
    /\ NoRecognisedParameter(export_parameters)
    /\ dataset.rows = <<>>
    /\ dataset.columns = DEFAULT_EXPORT_HEADER

(* the same export of a dataset with rows *)
ExportWithRows ==
    /\ fop = "generate_dummy_export_df"
    /\ NoRecognisedParameter(export_parameters)
    /\ dataset.rows # <<>>

-----------------------------------------------------------------------------
(* Properties of build_engine (specification SpecEngine) *)

(* OPENAI_API_KEY is unset or empty *)
CredentialsAbsent == openai_api_key = None \/ openai_api_key[1] = <<>>

(* the provider asked for is openai: named in any letter case, or left to  *)
(* the default of the parameter                                            *)
ProviderIsOpenAI(provider) ==
    \/ provider = None
    \/ provider[1] = <<>>
    \/ /\ Len(provider[1]) = 6
       /\ \A i \in 1..6 : provider[1][i] \in {<<"o","p","e","n","a","i">>[i], <<"O","P","E","N","A","I">>[i]}

(* C19: build_engine returns the echo engine whenever OPENAI_API_KEY is     *)
(* unset or empty and whenever the provider is unknown; it returns the     *)
(* provider's engine only when the provider is openai and the key is set;  *)
(* missing credentials raise nothing (an engine is always returned).       *)
C19_EchoUnlessOpenAIWithKey ==
    engine # None =>
        /\ engine[1].class \in {"EchoEngine", "OpenAIEngine"}
        /\ CredentialsAbsent => engine[1] = ECHO_ENGINE
        /\ ~ProviderIsOpenAI(engine_provider[1]) => engine[1] = ECHO_ENGINE
        /\ engine[1].class = "OpenAIEngine" =>
               (ProviderIsOpenAI(engine_provider[1]) /\ ~CredentialsAbsent)

(* a call for openai without a key, answered by the echo engine *)
C19_Witness ==
    /\ engine = Some(ECHO_ENGINE)
    /\ engine_provider = Some(Some(<<"o","p","e","n","a","i">>))
    /\ CredentialsAbsent

(* a call answered by the provider's engine *)
RealEngineBuilt == engine # None /\ engine[1].class = "OpenAIEngine"

-----------------------------------------------------------------------------
(* Properties of EchoEngine.stream_reply (specification SpecEcho) *)

RECURSIVE Concatenated(_)
(* "".join(pieces) *)
Concatenated(pieces) ==
    IF pieces = <<>> THEN <<>> ELSE Head(pieces) \o Concatenated(Tail(pieces))

(* the content of the last message of the history whose role is user, the  *)
(* empty text when there is none                                           *)
LatestUserMessage(history) ==
    IF \A i \in 1..Len(history) : history[i].role # "user" THEN <<>>
    ELSE history[CHOOSE i \in 1..Len(history) :
                     /\ history[i].role = "user"
                     /\ \A j \in (i + 1)..Len(history) : history[j].role # "user"].content

(* C20: the fragments EchoEngine.stream_reply yields, concatenated in      *)
(* order, are exactly "Echo: " followed by the content of the last user    *)
(* message of the history (nothing when there is none).                    *)
C20_FragmentsSpellTheEcho ==
    (fragments # None /\ fragments[1].exhausted) =>
        Concatenated(fragments[1].yielded)
            = <<"E","c","h","o",":"," ">> \o LatestUserMessage(chat_history)
-----------------------------------------------------------------------------
(* Properties of the region filter (specification SpecRegion) *)

(* the regions of the base dataset of process_chat_events: the key the     *)
(* rows carry in their region column and the name a query gives the region *)
BASE_REGIONS ==
    <<[key |-> "arabian_sea", name |-> "Arabian Sea",
       chars |-> <<"a","r","a","b","i","a","n"," ","s","e","a">>],
      [key |-> "bay_of_bengal", name |-> "Bay of Bengal",
       chars |-> <<"b","a","y"," ","o","f"," ","b","e","n","g","a","l">>],
      [key |-> "indian_ocean", name |-> "Indian Ocean",
       chars |-> <<"i","n","d","i","a","n"," ","o","c","e","a","n">>]>>

(* the base regions the query names *)
NamedBaseRegions(q) == SelectSeq(BASE_REGIONS, LAMBDA b : Contains(Lower(q), b.chars))

(* the rows of the frame that belong to one of these regions *)
RowsOfRegions(rows, regions) ==
    SelectSeq(rows, LAMBDA r : \E i \in 1..Len(regions) : r.region = regions[i].key)

(* the query set no filter but the region *)
OnlyRegionFilter ==
    /\ response.filters_applied.status = None
    /\ response.filters_applied.depth = None
    /\ response.filters_applied.float_type = None
    /\ response.filters_applied.parameter_focus = None

(* C30 as claimed: when the query names a region whose catalog is part of  *)
(* the base dataset, apply_chat_filters records the region in              *)
(* filters_applied['region'] and, no other filter being set, the filtered  *)
(* data is exactly the base rows of the named regions.                     *)
C30_RegionQueryKeepsRegionRows ==
    (qop # "idle" /\ NamedBaseRegions(query) # <<>>) =>
        /\ \A i \in 1..Len(NamedBaseRegions(query)) :
              InList(NamedBaseRegions(query)[i].name, response.filters_applied.region)
        /\ OnlyRegionFilter =>
              response.filtered_data.rows
                 = RowsOfRegions(ChatBaseData[today].rows, NamedBaseRegions(query))
-----------------------------------------------------------------------------
(* Properties of the rendering (specification SpecRender) *)

(* the message ids of the bubbles among the children, in order *)
BubbleIds(children) ==
    LET bubbles == SelectSeq(children, LAMBDA c : c.kind = "chat-message")
    IN  [i \in 1..Len(bubbles) |-> bubbles[i].message_id]

(* the messages of the conversation active_id names, none when the store   *)
(* has no conversation                                                     *)
ActiveMessages ==
    IF store.conversations = <<>> THEN <<>>
    ELSE ConversationOf(store, store.active_id[1]).messages

(* active_id names a conversation of the store, or the store has none *)
ActiveIsKnown ==
    \/ store.conversations = <<>>
    \/ store.active_id # None /\ store.active_id[1] \in ConversationIds(store)

(* C27 as claimed: once render_chat_from_store has processed a store       *)
(* update, the children of the chat history are exactly the messages of    *)
(* the active conversation, one bubble per message in message order, and   *)
(* the empty-state placeholder is there if and only if the conversation    *)
(* has no message.                                                         *)
C27_ChildrenMatchActiveConversation ==
    (~render_pending /\ ActiveIsKnown) =>
        /\ BubbleIds(chat_children)
              = [i \in 1..Len(ActiveMessages) |-> ActiveMessages[i].id]
        /\ InList(EMPTY_STATE, chat_children) <=> ActiveMessages = <<>>
-----------------------------------------------------------------------------
(* Properties of the chatbot page (specifications SpecPage, SpecPageFair) *)

(* C21 as claimed: a failure of the chat provider never reaches the user:  *)
(* no exception comes out of handle_chat, and outside a turn the message   *)
(* list never ends with a user message left without an assistant reply.    *)
C21_ProviderFailureNeverSurfaces ==
    /\ page_pc # "raised"
    /\ page_pc = "idle" => page_messages[Len(page_messages)].role = "assistant"

(* C22 as claimed: the reply is consumed lazily: once the service has      *)
(* produced k fragments of a reply the page receives k fragments, whether  *)
(* or not the service ever produces the last one (or the stream has ended  *)
(* or failed meanwhile).                                                   *)
C22_FragmentsReceivedAsProduced ==
    \A k \in 1..2 :
        (page_pc = "streaming" /\ openai_service[1].status = "streaming"
            /\ openai_service[1].produced >= k)
        ~> (page_received >= k \/ openai_service[1].status # "streaming")
-----------------------------------------------------------------------------
(* Properties of the history file (specification SpecLock) *)

(* the worker has the history file open *)
Accessing(p) == managers[p].pc \in {"reading", "writing"}

(* nobody has the file open and what it holds is not one well-formed list  *)
TornHistoryFile ==
    /\ \A p \in DOMAIN managers : ~Accessing(p)
    /\ history_file # None
    /\ history_file[1].exists
    /\ JsonLoad(history_file[1].content) = None

(* C23: every read and every write of the history file is done by a worker *)
(* that holds the advisory lock on it, so that two workers never have the  *)
(* file open for writing at the same time                                  *)
C23_HistoryAccessHoldsLock ==
    /\ \A p \in DOMAIN managers : Accessing(p) => file_lock = Some(p)
    /\ \A p, q \in DOMAIN managers :
          managers[p].pc = "writing" /\ managers[q].pc = "writing" => p = q
-----------------------------------------------------------------------------
(* Properties of the Streamlit chat history (specification SpecTrim) *)

(* the entries kept are the latest ones made, in the order they were made  *)
MostRecentInOrder ==
    \A i \in 1..Len(st_chat_history) :
        st_chat_history[i].timestamp = turn_clock - Len(st_chat_history) + i

(* the history ends with a user message followed by the reply to it *)
EndsWithLatestTurn ==
    LET n == Len(st_chat_history)
    IN /\ n >= 2
       /\ st_chat_history[n - 1].role = "user"
       /\ st_chat_history[n - 1].timestamp = turn_clock - 1
       /\ st_chat_history[n].role = "assistant"
       /\ st_chat_history[n].timestamp = turn_clock
       /\ st_chat_history[n].content = generate_bot_response(st_chat_history[n - 1].content)

(* C28: after any number of process_user_message calls the history holds   *)
(* at most max_chat_history entries, they are the most recent ones in      *)
(* their original order, and the last two are the latest user message and  *)
(* its reply                                                               *)
C28_HistoryKeepsLatestTwenty ==
    turn_clock > 0 =>
        /\ Len(st_chat_history) <= max_chat_history
        /\ MostRecentInOrder
        /\ EndsWithLatestTurn

(* the history was trimmed twice: the greeting and the first turn are gone *)
C28_Witness ==
    /\ turn_clock = 22
    /\ Len(st_chat_history) = max_chat_history
    /\ st_chat_history[1].timestamp = 3
-----------------------------------------------------------------------------
(* Properties of the cached history query (specification SpecCache) *)

(* a save or a clear on the session has committed and not yet returned *)
WriteInFlight(session_id) ==
    \E t \in DOMAIN db_calls :
        db_calls[t].pc \in {"saved", "cleared"} /\ db_calls[t].session_id = Some(session_id)

(* what the cache holds under the key, and so what the next fetch with     *)
(* these arguments is given, is a result of the query on the table as it   *)
(* is now                                                                  *)
EntryIsCurrent(key) == fetch_cache[key] \in fetch_chat_history(chat_records, key)

(* C29 as stated: once every save and clear on a session has returned, no  *)
(* fetch on that session is served anything but a current query result,    *)
(* whatever calls overlap                                                  *)
C29_NeverStaleInAnyInterleaving ==
    \A key \in DOMAIN fetch_cache : ~WriteInFlight(key.session_id) => EntryIsCurrent(key)

(* C29 amended: the same for a session whose calls do not overlap each     *)
(* other, whatever the calls on other sessions do                          *)
C29_NeverStaleForSequentialSession ==
    \A key \in DOMAIN fetch_cache :
        (key.session_id = "tab" /\ ~WriteInFlight("tab")) => EntryIsCurrent(key)

(* a fetch on the tab's session was cached after a save on it returned and *)
(* holds the saved row, while the other thread is in the middle of a call  *)
C29_Witness ==
    /\ db_calls # <<>>
    /\ db_calls[1].pc = "idle"
    /\ db_calls[2].pc # "idle"
    /\ \E key \in DOMAIN fetch_cache :
          /\ key.session_id = "tab"
          /\ fetch_cache[key] # <<>>

====
